---- MODULE Spec2Model ----
(***************************************************************************)
(* Estate-sale arbitrage scanner (estate_arb): brand matching, price       *)
(* statistics, vision merge, price lookup and ranking of opportunities.    *)
(*                                                                         *)
(* Conventions.  A Python str is a sequence of one-character strings, so   *)
(* that slicing, searching, case folding and stripping are computed.       *)
(* An optional value is a sequence of length at most one: None is << >>    *)
(* and a present value v is <<v>>.  A sold price is a whole number of      *)
(* dollars; the fields of a price summary (median, average, min, max) and  *)
(* an estate price estimate are in cents, which is what round(x, 2) and    *)
(* the two-decimal price pattern yield.  A confidence is in hundredths.    *)
(***************************************************************************)
EXTENDS Integers, Sequences, FiniteSets, TLC

VARIABLES
    pc,             \* the phase of run
    args,           \* the command-line arguments
    cache,          \* the price cache: query -> summary and age in hours
    sales,          \* the discovered sales, in discovery order
    matched_sales,  \* positions in sales of the sales of matched_sales
    vision_finds,   \* the vision_finds counter
    vision_items,   \* the findings of the sale being merged
    si,             \* loop position: the sale (enrich, match, vision)
    vi,             \* loop position: the finding of vision_items
    mk,             \* loop position: the sale of matched_sales (price lookup)
    ik,             \* loop position: the item of that sale
    query,          \* the query of the item being priced
    min_price,      \* its minimum price, in dollars
    stats,          \* its price summary
    searched,       \* the queries handed to search_sold, in order
    logged,         \* the warnings and errors logged in the vision phase
    opportunities,  \* the output list
    shown,          \* the ranking displayed on the terminal, or NoneVal
    report,         \* the ranking of the HTML report, or NoneVal
    a_listings,     \* PriceAnalyzer harness: the listings handed to analyze
    a_stats,        \* PriceAnalyzer harness: the returned summary, or NoneVal
    m_brands,       \* BrandMatcher harness: the configured brand list
    m_text,         \* BrandMatcher harness: the sale description
    m_nsegs,        \* BrandMatcher harness: pieces of text in the description
    m_items,        \* BrandMatcher harness: the returned items, or NoneVal
    c_set,          \* price cache harness: query -> the last summary set and the hours since
    c_got,          \* price cache harness: the query and result of the get just made, or NoneVal
    q_item,         \* query builder harness: the candidate item
    q_npieces,      \* query builder harness: pieces of text in its item type
    q_out,          \* query builder harness: the call made and its result, or NoneVal
    s_args,         \* scraper harness: the call made and its arguments
    s_pc,           \* scraper harness: the position in the call
    s_page_num,     \* scraper harness: page_num of search_sold
    s_attempt,      \* scraper harness: attempt of _safe_get
    s_listings,     \* scraper harness: all_listings of search_sold
    s_success,      \* scraper harness: what the last _safe_get returned, or NoneVal
    s_trace,        \* scraper harness: the requests sent and the sleeps made, in order
    b_args,         \* photo analyzer harness: the arguments of analyze_sale_photos
    b_pc,           \* photo analyzer harness: the position in the call
    b_images,       \* photo analyzer harness: the downloaded images
    b_i,            \* photo analyzer harness: the start of the next batch
    b_all_items,    \* photo analyzer harness: all_items
    b_sent,         \* photo analyzer harness: the batches sent to the model, in order
    b_result        \* photo analyzer harness: the returned findings, or NoneVal

anVars == <<a_listings, a_stats>>
maVars == <<m_brands, m_text, m_nsegs, m_items>>
caVars == <<c_set, c_got>>
pipeVars == <<pc, args, cache, sales, matched_sales, vision_finds, vision_items, si, vi,
              mk, ik, query, min_price, stats, searched, logged, opportunities, shown,
              report>>
quVars == <<q_item, q_npieces, q_out>>
scVars == <<s_args, s_pc, s_page_num, s_attempt, s_listings, s_success, s_trace>>
vbVars == <<b_args, b_pc, b_images, b_i, b_all_items, b_sent, b_result>>
vars == <<pipeVars, anVars, maVars, caVars, quVars, scVars, vbVars>>

NoneVal == <<>>
Some(v) == <<v>>

\* the harness of a component that a specification does not exercise
MaIdle == m_brands = <<>> /\ m_text = <<>> /\ m_nsegs = 0 /\ m_items = NoneVal
AnIdle == a_listings = <<>> /\ a_stats = NoneVal
CaIdle == c_set = <<>> /\ c_got = NoneVal
QuIdle == q_item = <<>> /\ q_npieces = 0 /\ q_out = NoneVal
ScIdle ==
    /\ s_args = <<>> /\ s_pc = "idle" /\ s_page_num = 1 /\ s_attempt = 0
    /\ s_listings = <<>> /\ s_success = NoneVal /\ s_trace = <<>>
VbIdle ==
    /\ b_args = <<>> /\ b_pc = "idle" /\ b_images = <<>> /\ b_i = 0
    /\ b_all_items = <<>> /\ b_sent = <<>> /\ b_result = NoneVal
PipeIdle ==
    /\ pc = "idle" /\ args = <<>> /\ cache = <<>> /\ sales = <<>> /\ matched_sales = <<>>
    /\ vision_finds = 0 /\ vision_items = <<>> /\ si = 1 /\ vi = 1 /\ mk = 1 /\ ik = 1
    /\ query = <<>> /\ min_price = 0 /\ stats = <<>> /\ searched = <<>> /\ logged = <<>>
    /\ opportunities = <<>>
    /\ shown = NoneVal /\ report = NoneVal

(***************************************************************************)
(* Bounds                                                                  *)
(***************************************************************************)
MaxObs == 6
MaxSegs == 3
MaxFindings == 2
MaxHours == 26

(***************************************************************************)
(* Arithmetic helpers                                                      *)
(***************************************************************************)
Abs(x) == IF x < 0 THEN -x ELSE x

RECURSIVE SumSeq(_)
SumSeq(s) == IF s = <<>> THEN 0 ELSE Head(s) + SumSeq(Tail(s))

RECURSIVE SumSq(_)
SumSq(s) == IF s = <<>> THEN 0 ELSE Head(s) * Head(s) + SumSq(Tail(s))

MinOf(s) == CHOOSE x \in {s[i] : i \in DOMAIN s} : \A j \in DOMAIN s : x <= s[j]
MaxOf(s) == CHOOSE x \in {s[i] : i \in DOMAIN s} : \A j \in DOMAIN s : x >= s[j]

\* round(num / den, 0) as Python rounds: to nearest, ties to even (den > 0, num >= 0)
RoundHalfEven(num, den) ==
    LET q == num \div den
        r == num % den
    IN  IF 2 * r < den THEN q
        ELSE IF 2 * r > den THEN q + 1
        ELSE IF q % 2 = 0 THEN q ELSE q + 1

\* insertion of x into an ascending sequence, after the elements equal to it
RECURSIVE InsertAsc(_, _)
InsertAsc(x, s) ==
    IF s = <<>> THEN <<x>>
    ELSE IF x < Head(s) THEN <<x>> \o s
    ELSE <<Head(s)>> \o InsertAsc(x, Tail(s))

\* sorted(prices), as statistics.median sorts its data
RECURSIVE SortAsc(_)
SortAsc(s) == IF s = <<>> THEN <<>> ELSE InsertAsc(s[Len(s)], SortAsc(SubSeq(s, 1, Len(s) - 1)))

(***************************************************************************)
(* Text: str as a sequence of characters                                   *)
(***************************************************************************)
LowerOf ==
    [c \in {"A","B","C","D","E","F","G","H","I","J","K","L","M",
            "N","O","P","Q","R","S","T","U","V","W","X","Y","Z"} |->
       CASE c = "A" -> "a" [] c = "B" -> "b" [] c = "C" -> "c" [] c = "D" -> "d"
         [] c = "E" -> "e" [] c = "F" -> "f" [] c = "G" -> "g" [] c = "H" -> "h"
         [] c = "I" -> "i" [] c = "J" -> "j" [] c = "K" -> "k" [] c = "L" -> "l"
         [] c = "M" -> "m" [] c = "N" -> "n" [] c = "O" -> "o" [] c = "P" -> "p"
         [] c = "Q" -> "q" [] c = "R" -> "r" [] c = "S" -> "s" [] c = "T" -> "t"
         [] c = "U" -> "u" [] c = "V" -> "v" [] c = "W" -> "w" [] c = "X" -> "x"
         [] c = "Y" -> "y" [] c = "Z" -> "z"]

LowerLetters ==
    {"a","b","c","d","e","f","g","h","i","j","k","l","m",
     "n","o","p","q","r","s","t","u","v","w","x","y","z"}

DigitVal ==
    [c \in {"0","1","2","3","4","5","6","7","8","9"} |->
       CASE c = "0" -> 0 [] c = "1" -> 1 [] c = "2" -> 2 [] c = "3" -> 3
         [] c = "4" -> 4 [] c = "5" -> 5 [] c = "6" -> 6 [] c = "7" -> 7
         [] c = "8" -> 8 [] c = "9" -> 9]

IsDigit(c) == c \in DOMAIN DigitVal

\* str.lower() of one character
Lower(c) == IF c \in DOMAIN LowerOf THEN LowerOf[c] ELSE c

\* \w
IsWordChar(c) == c \in DOMAIN LowerOf \/ c \in LowerLetters \/ IsDigit(c) \/ c = "_"

\* \s
IsSpace(c) == c \in {" ", "\n", "\t"}

\* text[lo:hi] for 0 <= lo, hi <= len(text) (0-based, hi exclusive)
Slice(text, lo, hi) == SubSeq(text, lo + 1, hi)

\* str.strip()
RECURSIVE LStrip(_)
LStrip(t) == IF t # <<>> /\ IsSpace(Head(t)) THEN LStrip(Tail(t)) ELSE t

RECURSIVE RStrip(_)
RStrip(t) == IF t # <<>> /\ IsSpace(t[Len(t)]) THEN RStrip(SubSeq(t, 1, Len(t) - 1)) ELSE t

Strip(t) == LStrip(RStrip(t))

Max2(a, b) == IF a >= b THEN a ELSE b
Min2(a, b) == IF a <= b THEN a ELSE b

\* \b at 0-based offset i of text (0 <= i <= len): exactly one side is a word character
WordBoundary(text, i) ==
    LET before == i >= 1 /\ IsWordChar(text[i])
        after  == i < Len(text) /\ IsWordChar(text[i + 1])
    IN  before # after

\* term occurs at 0-based offset i of text, ignoring case
OccursAt(text, term, i) ==
    /\ i + Len(term) <= Len(text)
    /\ \A j \in 1..Len(term) : Lower(text[i + j]) = Lower(term[j])

(***************************************************************************)
(* models/ebay_listing.py and matching/price_analyzer.py                   *)
(***************************************************************************)
EbaySoldListing(price, shipping) == [sold_price |-> price, shipping_cost |-> shipping]

total_price(l) == l.sold_price + l.shipping_cost

MinTrimLen == 5
StdevFactor == 2

EmptyStats == [count |-> 0, median |-> 0, average |-> 0, min |-> 0, max |-> 0]

\* mutant of MedianCents: the middle of the data as given, not of the sorted data
MedianCents_unsorted(prices) ==
    LET n == Len(prices)
    IN  IF n % 2 = 1 THEN 100 * prices[(n + 1) \div 2]
        ELSE 50 * (prices[n \div 2] + prices[n \div 2 + 1])

\* statistics.median(prices), in cents
MedianCents(prices) ==
    LET s == SortAsc(prices)
        n == Len(s)
    IN  IF n % 2 = 1 THEN 100 * s[(n + 1) \div 2]
        ELSE 50 * (s[n \div 2] + s[n \div 2 + 1])

\* round(statistics.mean(prices), 2), in cents
MeanCents(prices) == RoundHalfEven(100 * SumSeq(prices), Len(prices))

\* abs(p - mean) <= 2 * stdev, with mean = S/n and stdev^2 = (n*Q - S^2)/(n*(n-1)),
\* cleared of denominators
WithinStdev(p, prices, k) ==
    LET n == Len(prices)
        S == SumSeq(prices)
        Q == SumSq(prices)
    IN  (n * p - S) * (n * p - S) * (n - 1) <= k * k * n * (n * Q - S * S)

StdevPositive(prices) ==
    Len(prices) * SumSq(prices) - SumSeq(prices) * SumSeq(prices) > 0

SoldPrices(listings) == [i \in DOMAIN listings |-> listings[i].sold_price]

TotalPrices(listings) == [i \in DOMAIN listings |-> total_price(listings[i])]

StatsOf(prices) ==
    [count   |-> Len(prices),
     median  |-> MedianCents(prices),
     average |-> MeanCents(prices),
     min     |-> 100 * MinOf(prices),
     max     |-> 100 * MaxOf(prices)]

\* [p for p in prices if abs(p - mean) <= k * stdev], mean and stdev of all
RECURSIVE KeepWithin(_, _, _)
KeepWithin(s, all, k) ==
    IF s = <<>> THEN <<>>
    ELSE (IF WithinStdev(Head(s), all, k) THEN <<Head(s)>> ELSE <<>>)
         \o KeepWithin(Tail(s), all, k)

TrimOutliers(all, minLen, k) ==
    IF Len(all) >= minLen /\ StdevPositive(all)
    THEN LET kept == KeepWithin(all, all, k)
         IN  IF kept = <<>> THEN all ELSE kept
    ELSE all

\* mutants of analyze
analyze_one_stdev(listings) ==
    IF listings = <<>> THEN EmptyStats
    ELSE StatsOf(TrimOutliers(SoldPrices(listings), MinTrimLen, 1))

analyze_total_price(listings) ==
    IF listings = <<>> THEN EmptyStats
    ELSE StatsOf(TrimOutliers(TotalPrices(listings), MinTrimLen, StdevFactor))

analyze_needs_two(listings) ==
    IF Len(listings) < 2 THEN EmptyStats
    ELSE StatsOf(TrimOutliers(SoldPrices(listings), MinTrimLen, StdevFactor))

analyze(listings) ==
    IF listings = <<>> THEN EmptyStats
    ELSE StatsOf(TrimOutliers(SoldPrices(listings), MinTrimLen, StdevFactor))

(***************************************************************************)
(* config.py, models/estate_sale.py and matching/brand_matcher.py          *)
(***************************************************************************)
DefaultMinEbayPrice == 10
PriceWindow == 200
ContextWindow == 100

BrandConfig(name, terms, suffix, minPrice) ==
    [name |-> name, search_terms |-> terms, ebay_search_suffix |-> suffix,
     min_ebay_price |-> minPrice]

SaleItem(brand, description, estimated_price, confidence, source, item_type, reasoning, ebay_query) ==
    [brand |-> brand, description |-> description,
     estimated_price |-> estimated_price, photo_urls |-> <<>>,
     confidence |-> confidence, source |-> source, item_type |-> item_type,
     reasoning |-> reasoning, ebay_query |-> ebay_query]

\* self._patterns[name]: the dict keeps the terms of the last brand of that name
PatternsOf(brands, name) ==
    LET last == CHOOSE i \in DOMAIN brands :
                    /\ brands[i].name = name
                    /\ \A j \in DOMAIN brands : brands[j].name = name => j <= i
    IN  brands[last].search_terms

\* the offsets where re.escape(term) matches, between \b and \b when bounded
MatchStarts(text, term, bounded) ==
    { i \in 0..Len(text) :
        /\ OccursAt(text, term, i)
        /\ bounded => (WordBoundary(text, i) /\ WordBoundary(text, i + Len(term))) }

SearchFrom(text, term, bounded) ==
    LET starts == MatchStarts(text, term, bounded)
    IN  IF starts = {} THEN NoneVal
        ELSE LET s0 == CHOOSE i \in starts : \A j \in starts : i <= j
             IN  Some([start |-> s0, end |-> s0 + Len(term)])

\* mutant of PatternSearch: the pattern without the \b anchors
PatternSearch_unanchored(text, term) == SearchFrom(text, term, FALSE)

\* re.compile(r"\b" + re.escape(term) + r"\b", re.IGNORECASE).search(text)
PatternSearch(text, term) == SearchFrom(text, term, TRUE)

\* index after the run of digits that starts at i (1-based)
RECURSIVE DigitsEnd(_, _)
DigitsEnd(t, i) == IF i <= Len(t) /\ IsDigit(t[i]) THEN DigitsEnd(t, i + 1) ELSE i

\* index after the groups (?:,\d{3})* that start at i
RECURSIVE GroupsEnd(_, _)
GroupsEnd(t, i) ==
    IF i + 3 <= Len(t) /\ t[i] = "," /\ IsDigit(t[i + 1]) /\ IsDigit(t[i + 2])
       /\ IsDigit(t[i + 3])
    THEN GroupsEnd(t, i + 4) ELSE i

\* index after the optional (?:\.\d{2}) that starts at i
CentsEnd(t, i) ==
    IF i + 2 <= Len(t) /\ t[i] = "." /\ IsDigit(t[i + 1]) /\ IsDigit(t[i + 2])
    THEN i + 3 ELSE i

\* float(price_str.replace(",", "")) in cents, price_str matching \d+(?:,\d{3})*(?:\.\d{2})?
RECURSIVE FloatCents(_, _)
FloatCents(str, acc) ==
    IF str = <<>> THEN 100 * acc
    ELSE IF Head(str) = "," THEN FloatCents(Tail(str), acc)
    ELSE IF Head(str) = "." THEN 100 * acc + 10 * DigitVal[str[2]] + DigitVal[str[3]]
    ELSE FloatCents(Tail(str), 10 * acc + DigitVal[Head(str)])

\* re.compile(r"\$(\d+(?:,\d{3})*(?:\.\d{2})?)").search(region): group(1), or None
PriceSearch(region) ==
    LET starts == { q \in 1..(Len(region) - 1) : region[q] = "$" /\ IsDigit(region[q + 1]) }
    IN  IF starts = {} THEN NoneVal
        ELSE LET q0 == CHOOSE q \in starts : \A r \in starts : q <= r
                 e  == CentsEnd(region, GroupsEnd(region, DigitsEnd(region, q0 + 1)))
             IN  Some(SubSeq(region, q0 + 1, e - 1))

ExtractPrice(text, match, window) ==
    LET region_start == Max2(0, match.start - window)
        region_end   == Min2(Len(text), match.end + window)
        region       == Slice(text, region_start, region_end)
        price_match  == PriceSearch(region)
    IN  IF price_match # NoneVal THEN Some(FloatCents(price_match[1], 0)) ELSE NoneVal

\* mutant of _extract_price_near_match: the price is looked for in the context window
_extract_price_in_context(text, match) == ExtractPrice(text, match, ContextWindow)

_extract_price_near_match(text, match) == ExtractPrice(text, match, PriceWindow)

\* the item of one brand: the first pattern, in order, that matches
RECURSIVE FirstPatternMatch(_, _)
FirstPatternMatch(text, patterns) ==
    IF patterns = <<>> THEN NoneVal
    ELSE LET m == PatternSearch(text, Head(patterns))
         IN  IF m # NoneVal THEN m ELSE FirstPatternMatch(text, Tail(patterns))

TextItem(text, name, match) ==
    LET start == Max2(0, match.start - ContextWindow)
        end   == Min2(Len(text), match.end + ContextWindow)
    IN  SaleItem(name, Strip(Slice(text, start, end)),
                 _extract_price_near_match(text, match), 100, "text", <<>>, <<>>, <<>>)

\* one item per matching pattern: the loop over the patterns without its break
RECURSIVE AllPatternItems(_, _, _)
AllPatternItems(text, name, patterns) ==
    IF patterns = <<>> THEN <<>>
    ELSE LET m == PatternSearch(text, Head(patterns))
         IN  (IF m # NoneVal THEN <<TextItem(text, name, m[1])>> ELSE <<>>)
             \o AllPatternItems(text, name, Tail(patterns))

RECURSIVE MatchBrands(_, _, _, _)
MatchBrands(all, rest, text, break) ==
    IF rest = <<>> THEN <<>>
    ELSE LET name == Head(rest).name
             pats == PatternsOf(all, name)
             m    == FirstPatternMatch(text, pats)
             here == IF break
                     THEN (IF m # NoneVal THEN <<TextItem(text, name, m[1])>> ELSE <<>>)
                     ELSE AllPatternItems(text, name, pats)
         IN  here \o MatchBrands(all, Tail(rest), text, break)

\* mutant of match_sale: no break after the first matching pattern
match_sale_no_break(brands, description) ==
    IF description = <<>> THEN <<>> ELSE MatchBrands(brands, brands, description, FALSE)

\* BrandMatcher(brands).match_sale(sale), sale.description = description
match_sale(brands, description) ==
    IF description = <<>> THEN <<>> ELSE MatchBrands(brands, brands, description, TRUE)

(***************************************************************************)
(* Strings of the configuration and of the sale descriptions               *)
(***************************************************************************)
sPatagonia == <<"P", "a", "t", "a", "g", "o", "n", "i", "a">>
sOrvis == <<"O", "r", "v", "i", "s">>
tPatagonia == <<"p", "a", "t", "a", "g", "o", "n", "i", "a">>
tSynchilla == <<"s", "y", "n", "c", "h", "i", "l", "l", "a">>
tOrvis == <<"o", "r", "v", "i", "s">>
sFleeceJacket == <<"f", "l", "e", "e", "c", "e", " ", "j", "a", "c", "k", "e", "t">>
sQiviutCo == <<"Q", "i", "v", "i", "u", "t", " ", "C", "o">>
sUnknown == <<"U", "n", "k", "n", "o", "w", "n">>

PatagoniaRule == BrandConfig(sPatagonia, <<tPatagonia, tSynchilla>>, sFleeceJacket, 20)
PatagoniaRuleSwapped == BrandConfig(sPatagonia, <<tSynchilla, tPatagonia>>, sFleeceJacket, 20)
OrvisRule == BrandConfig(sOrvis, <<tOrvis>>, <<>>, DefaultMinEbayPrice)

\* the brand lists load_brands can return here
RuleSets == { <<PatagoniaRule>>, <<OrvisRule, PatagoniaRuleSwapped>> }

Pad(n) == [i \in 1..n |-> "-"]

ExampleDescription == <<"N", "i", "c", "e", " ", "P", "a", "t", "a", "g", "o", "n", "i", "a", " ", "f", "l", "e", "e", "c", "e", ",", " ", "b", "a", "r", "e", "l", "y", " ", "w", "o", "r", "n", ",", " ", "$", "4", "5">>

TextSegments ==
    { sPatagonia, <<"S", "Y", "N", "C", "H", "I", "L", "L", "A">>, sOrvis, <<" ">>, <<"s">>,
      <<"$", "4", "5">>, <<",", "5", "0", "0", ".", "7", "5">>, Pad(PriceWindow - 2) }

(***************************************************************************)
(* cli.py: _simplify_query                                                 *)
(***************************************************************************)
MaxQueryLen == 50
DefaultVisionMinPrice == 15

LowerStr(t) == [i \in DOMAIN t |-> Lower(t[i])]

\* the noise words of _simplify_query
Noise ==
    { <<"v", "i", "n", "t", "a", "g", "e">>,
      <<"a", "n", "t", "i", "q", "u", "e">>,
      <<"o", "r", "i", "g", "i", "n", "a", "l">>,
      <<"a", "u", "t", "h", "e", "n", "t", "i", "c">>,
      <<"g", "e", "n", "u", "i", "n", "e">>,
      <<"c", "l", "a", "s", "s", "i", "c">>,
      <<"v", "a", "r", "i", "o", "u", "s">>,
      <<"u", "n", "k", "n", "o", "w", "n">>,
      <<"w", "i", "t", "h">>,
      <<"a", "n", "d">>,
      <<"t", "h", "e">>,
      <<"f", "o", "r">>,
      <<"f", "r", "o", "m">>,
      <<"s", "e", "t">>,
      <<"c", "o", "l", "l", "e", "c", "t", "i", "o", "n">>,
      <<"c", "o", "l", "l", "e", "c", "t", "i", "b", "l", "e">>,
      <<"c", "o", "l", "l", "e", "c", "t", "i", "b", "l", "e", "s">>,
      <<"s", "t", "y", "l", "e">>,
      <<"t", "y", "p", "e">> }

\* re.sub(r"\(.*?\)", "", t): every "(" up to the next ")" is removed, when
\* no newline lies between them
RECURSIVE StripParens(_)
StripParens(t) ==
    LET opens == { i \in DOMAIN t :
                     /\ t[i] = "("
                     /\ \E j \in (i + 1)..Len(t) :
                           t[j] = ")" /\ \A k \in (i + 1)..(j - 1) : t[k] # "\n" }
    IN  IF opens = {} THEN t
        ELSE LET i0 == CHOOSE i \in opens : \A k \in opens : i <= k
                 j0 == CHOOSE j \in (i0 + 1)..Len(t) :
                          t[j] = ")" /\ \A k \in (i0 + 1)..(j - 1) : t[k] # ")"
             IN  SubSeq(t, 1, i0 - 1) \o StripParens(SubSeq(t, j0 + 1, Len(t)))

\* t.split("/")[0]
BeforeSlash(t) ==
    LET slashes == { i \in DOMAIN t : t[i] = "/" }
    IN  IF slashes = {} THEN t
        ELSE SubSeq(t, 1, (CHOOSE i \in slashes : \A k \in slashes : i <= k) - 1)

\* re.sub(re.escape(word), "", t, flags=re.IGNORECASE), word non-empty
RECURSIVE RemoveIgnoreCase(_, _)
RemoveIgnoreCase(t, word) ==
    LET starts == { i \in 0..Len(t) : OccursAt(t, word, i) }
    IN  IF starts = {} THEN t
        ELSE LET i0 == CHOOSE i \in starts : \A k \in starts : i <= k
             IN  SubSeq(t, 1, i0) \o RemoveIgnoreCase(SubSeq(t, i0 + Len(word) + 1, Len(t)), word)

\* t.split(): the maximal runs of non-whitespace
RECURSIVE SplitWords(_)
SplitWords(t) ==
    LET u == LStrip(t)
    IN  IF u = <<>> THEN <<>>
        ELSE LET spaces == { i \in DOMAIN u : IsSpace(u[i]) }
                 e == IF spaces = {} THEN Len(u) + 1
                      ELSE CHOOSE i \in spaces : \A k \in spaces : i <= k
             IN  <<SubSeq(u, 1, e - 1)>> \o SplitWords(SubSeq(u, e, Len(u)))

\* " ".join(words)
RECURSIVE JoinWords(_)
JoinWords(words) ==
    IF words = <<>> THEN <<>>
    ELSE IF Len(words) = 1 THEN words[1]
    ELSE words[1] \o <<" ">> \o JoinWords(Tail(words))

\* mutant of DropNoise: the words are compared as written, not in lower case
RECURSIVE DropNoise_case_sensitive(_)
DropNoise_case_sensitive(words) ==
    IF words = <<>> THEN <<>>
    ELSE (IF Head(words) \in Noise THEN <<>> ELSE <<Head(words)>>)
         \o DropNoise_case_sensitive(Tail(words))

\* [w for w in words if w.lower() not in noise]
RECURSIVE DropNoise(_)
DropNoise(words) ==
    IF words = <<>> THEN <<>>
    ELSE (IF LowerStr(Head(words)) \in Noise THEN <<>> ELSE <<Head(words)>>)
         \o DropNoise(Tail(words))

FirstN(s, n) == SubSeq(s, 1, Min2(n, Len(s)))

\* q.rsplit(" ", 1)[0]
BeforeLastSpace(q) ==
    LET spaces == { i \in DOMAIN q : q[i] = " " }
    IN  IF spaces = {} THEN q
        ELSE SubSeq(q, 1, (CHOOSE i \in spaces : \A k \in spaces : i >= k) - 1)

\* the query of _simplify_query before the test of its length
query_before_cut(brand, item_type) ==
    LET brand_part == IF brand = <<>> \/ LowerStr(brand) = LowerStr(sUnknown) THEN <<>> ELSE brand
        simple0 == BeforeSlash(StripParens(item_type))
        simple  == IF brand_part # <<>> THEN RemoveIgnoreCase(simple0, brand_part) ELSE simple0
        words   == SplitWords(simple)
        core0   == DropNoise(words)
        core    == IF core0 # <<>> THEN FirstN(core0, 3) ELSE FirstN(words, 2)
        suffix  == Strip(JoinWords(core))
    IN  Strip(brand_part \o <<" ">> \o suffix)

\* mutant of _simplify_query: query[:50] without the rsplit
_simplify_query_hard_cut(brand, item_type) ==
    LET result == query_before_cut(brand, item_type)
    IN  IF Len(result) > MaxQueryLen THEN FirstN(result, MaxQueryLen) ELSE result

_simplify_query(brand, item_type) ==
    LET result == query_before_cut(brand, item_type)
    IN  IF Len(result) > MaxQueryLen THEN BeforeLastSpace(FirstN(result, MaxQueryLen)) ELSE result

(***************************************************************************)
(* cli.py: run, with models/opportunity.py, output/terminal.py,            *)
(* output/html_report.py, vision/photo_analyzer.py and the price cache     *)
(***************************************************************************)
MinProfitMultiplier == 20       \* Settings.min_profit_multiplier 2.0, in tenths
CacheTtlHours == 24

EstateSale(sale_id) ==
    [sale_id |-> sale_id, description |-> <<>>, photo_urls |-> <<>>, matched_items |-> <<>>]

\* vi.get(key, default)
Get(finding, key, default) == IF key \in DOMAIN finding THEN finding[key] ELSE default

\* analyze_sale_photos: deduplicate by brand + item_type, keeping the first
RECURSIVE UniqueItems(_, _)
UniqueItems(all_items, seen) ==
    IF all_items = <<>> THEN <<>>
    ELSE LET item == Head(all_items)
             key  == <<Get(item, "brand", <<>>), Get(item, "item_type", <<>>)>>
         IN  IF key \in seen THEN UniqueItems(Tail(all_items), seen)
             ELSE <<item>> \o UniqueItems(Tail(all_items), seen \cup {key})

analyze_sale_photos(all_items) == UniqueItems(all_items, {})

\* [it for it in sale.matched_items if it.item_type == brand]: mutant of Existing
Existing_by_item_type(matched_items, brand) ==
    SelectSeq(matched_items, LAMBDA it : it.item_type = brand)

\* existing = [it for it in sale.matched_items if it.brand == brand]
Existing(matched_items, brand) ==
    SelectSeq(matched_items, LAMBDA it : it.brand = brand)

\* mutant of MergeInto: the reasoning of the finding is dropped
MergeInto_source_only(item, reasoning) == [item EXCEPT !.source = "both"]

\* existing[0].source = "both"; existing[0].reasoning = reasoning
MergeInto(item, reasoning) == [item EXCEPT !.source = "both", !.reasoning = reasoning]

\* position of existing[0] in sale.matched_items
FirstIndex(matched_items, it0) ==
    CHOOSE i \in DOMAIN matched_items :
        matched_items[i] = it0 /\ \A j \in DOMAIN matched_items : matched_items[j] = it0 => i <= j

\* sale in matched_sales: the dataclass compares field by field
SaleIn(allSales, matched, i) ==
    \E k \in DOMAIN matched : allSales[matched[k]] = allSales[i]

\* mutant of MarkMatched: the sale is appended without the membership test
MarkMatched_always(allSales, matched, i) == Append(matched, i)

\* if sale not in matched_sales: matched_sales.append(sale)
MarkMatched(allSales, matched, i) ==
    IF ~SaleIn(allSales, matched, i) THEN Append(matched, i) ELSE matched

\* brands_by_name.get(brand): the dict keeps the last brand of that name
BrandsByName(brands, name) ==
    LET rs == { r \in DOMAIN brands : brands[r].name = name }
    IN  IF rs = {} THEN NoneVal
        ELSE Some(brands[CHOOSE r \in rs : \A q \in rs : q <= r])

\* mutant of ResolveMinPrice: the configured minimum is ignored
ResolveMinPrice_default(brands, item) == DefaultVisionMinPrice

ResolveMinPrice(brands, item) ==
    LET brand_config == BrandsByName(brands, item.brand)
    IN  IF brand_config # NoneVal THEN brand_config[1].min_ebay_price
        ELSE DefaultVisionMinPrice

\* mutant of ResolveQuery: a precomputed query is preferred to the configured one
ResolveQuery_prefers_precomputed(brands, item) ==
    LET brand_config == BrandsByName(brands, item.brand)
    IN  IF item.ebay_query # <<>> THEN item.ebay_query
        ELSE IF brand_config # NoneVal
        THEN Strip(item.brand \o <<" ">> \o brand_config[1].ebay_search_suffix)
        ELSE _simplify_query(item.brand, item.item_type)

ResolveQuery(brands, item) ==
    LET brand_config == BrandsByName(brands, item.brand)
    IN  IF brand_config # NoneVal
        THEN Strip(item.brand \o <<" ">> \o brand_config[1].ebay_search_suffix)
        ELSE IF item.ebay_query # <<>> THEN item.ebay_query
        ELSE _simplify_query(item.brand, item.item_type)

\* mutant of ttl_hours: the setting is handed over as a number of days
ttl_hours_in_days == CacheTtlHours \div 24

\* cache = DiskCache(ttl_hours=settings.cache_ttl_hours)
ttl_hours == CacheTtlHours

\* DiskCache.get(query): the stored summary while its age is within the TTL
cache_get(c, q) ==
    IF q \in DOMAIN c /\ c[q].age <= ttl_hours THEN Some(c[q].summary)
    ELSE NoneVal

\* the cache an hour later
cache_aged(c) == [k \in DOMAIN c |-> [c[k] EXCEPT !.age = @ + 1]]

\* DiskCache.set(query, summary): stored with the current time
cache_set(c, q, summary) ==
    [k \in DOMAIN c \cup {q} |->
        IF k = q THEN [summary |-> summary, age |-> 0] ELSE c[k]]

\* mutant of UseCached: a cached summary without observations is not used
UseCached_needs_observations(cached, no_cache) ==
    cached # NoneVal /\ cached[1].count > 0 /\ ~no_cache

\* mutant of UseCached: the bypass flag is not consulted
UseCached_ignores_bypass(cached, no_cache) == cached # NoneVal

\* if cached and not args.no_cache
UseCached(cached, no_cache) == cached # NoneVal /\ ~no_cache

\* stats["count"] > 0 and stats["median"] >= min_price
Admitted(st, minPrice) == st.count > 0 /\ st.median >= 100 * minPrice

\* ArbitrageOpportunity.estimated_roi_pct, as the fraction
\* (median - estimate) * 100 / estimate, or None
estimated_roi_pct(opp) ==
    IF opp.estate_price_estimate # NoneVal /\ opp.estate_price_estimate[1] # 0
       /\ opp.estate_price_estimate[1] > 0
    THEN Some([num |-> (opp.ebay_median_sold - opp.estate_price_estimate[1]) * 100,
               den |-> opp.estate_price_estimate[1]])
    ELSE NoneVal

\* mutant of ProfitMult: a missing estimate counts as an estimate of one dollar
ProfitMult_missing_as_one(item, st) ==
    IF item.estimated_price # NoneVal /\ item.estimated_price[1] # 0
       /\ item.estimated_price[1] > 0
    THEN Some([num |-> st.median, den |-> item.estimated_price[1]])
    ELSE Some([num |-> st.median, den |-> 100])

\* profit_mult = median / estimated_price when the estimate is truthy and positive
ProfitMult(item, st) ==
    IF item.estimated_price # NoneVal /\ item.estimated_price[1] # 0
       /\ item.estimated_price[1] > 0
    THEN Some([num |-> st.median, den |-> item.estimated_price[1]])
    ELSE NoneVal

\* mutant of Included: the threshold itself is excluded
Included_strict(profit_mult, multiplier) ==
    profit_mult = NoneVal \/ 10 * profit_mult[1].num > multiplier * profit_mult[1].den

\* profit_mult is None or profit_mult >= multiplier (multiplier in tenths)
Included(profit_mult, multiplier) ==
    profit_mult = NoneVal \/ 10 * profit_mult[1].num >= multiplier * profit_mult[1].den

ArbitrageOpportunity(sale, item, st, profit_mult) ==
    [estate_sale_id        |-> sale.sale_id,
     matched_brand         |-> item.brand,
     matched_description   |-> item.description,
     detection_source      |-> item.source,
     estate_price_estimate |-> item.estimated_price,
     ebay_median_sold      |-> st.median,
     ebay_average_sold     |-> st.average,
     ebay_sample_count     |-> st.count,
     ebay_price_range      |-> <<st.min, st.max>>,
     profit_multiplier     |-> profit_mult,
     item_type             |-> item.item_type,
     vision_reasoning      |-> item.reasoning]

\* insertion into a sequence sorted by descending median: before (ties FALSE)
\* or after (ties TRUE) the opportunities of the same median
RECURSIVE InsertDesc(_, _, _)
InsertDesc(o, s, ties) ==
    IF s = <<>> THEN <<o>>
    ELSE IF o.ebay_median_sold > Head(s).ebay_median_sold
            \/ (~ties /\ o.ebay_median_sold = Head(s).ebay_median_sold)
         THEN <<o>> \o s
         ELSE <<Head(s)>> \o InsertDesc(o, Tail(s), ties)

RECURSIVE SortedDesc(_, _)
SortedDesc(opps, ties) ==
    IF opps = <<>> THEN <<>>
    ELSE InsertDesc(opps[Len(opps)], SortedDesc(SubSeq(opps, 1, Len(opps) - 1), ties), ties)

\* mutant of display_opportunities: equal medians come out in reverse order
display_opportunities_unstable(opps) == SortedDesc(opps, FALSE)

\* sorted(opportunities, key=lambda o: o.ebay_median_sold, reverse=True)
display_opportunities(opps) == SortedDesc(opps, TRUE)

\* sorted(opportunities, key=lambda o: o.ebay_median_sold or 0, reverse=True)
_build_rows(opps) == SortedDesc(opps, TRUE)

(***************************************************************************)
(* The inputs of a run                                                     *)
(***************************************************************************)
sFleece == <<"F", "l", "e", "e", "c", "e">>
sSweater == <<"S", "w", "e", "a", "t", "e", "r">>
sVase == <<"V", "a", "s", "e">>
sArtVase == <<"a", "r", "t", " ", "v", "a", "s", "e">>
sR1 == <<"r", "1">>
sR2 == <<"r", "2">>
sQiviutQuery == <<"Q", "i", "v", "i", "u", "t", " ", "C", "o", " ", "S", "w", "e", "a", "t", "e", "r">>
sPatagoniaQuery == <<"P", "a", "t", "a", "g", "o", "n", "i", "a", " ", "f", "l", "e", "e", "c", "e", " ", "j", "a", "c", "k", "e", "t">>

Brands == <<PatagoniaRule, OrvisRule>>

ArgsPool ==
    { [multiplier |-> NoneVal,  no_cache |-> FALSE, no_vision |-> FALSE],
      [multiplier |-> Some(30), no_cache |-> TRUE,  no_vision |-> TRUE],
      [multiplier |-> NoneVal,  no_cache |-> FALSE, no_vision |-> TRUE] }

\* the price cache left by earlier runs
CachePool ==
    { <<>>,
      [q \in {sPatagoniaQuery} |-> [summary |-> StatsOf(<<120, 130>>), age |-> 1]],
      [q \in {sPatagoniaQuery} |->
          [summary |-> StatsOf(<<120, 130>>), age |-> CacheTtlHours + 1]] }

\* what discovery returns: no sale, one, two, or one sale listed twice
SaleIdLists == { <<>>, <<1>>, <<1, 2>>, <<1, 1>> }

DescriptionPool == { <<>>, ExampleDescription, <<"O", "r", "v", "i", "s", " ", "$", "0">> }

PhotoPool == { <<>>, <<"photo">> }

FindingPool ==
    { [brand |-> sPatagonia, item_type |-> sFleece, ebay_query |-> sFleece,
       confidence |-> 90, reasoning |-> sR1],
      [brand |-> sQiviutCo, item_type |-> sSweater, confidence |-> 80, reasoning |-> sR2],
      [item_type |-> sVase, ebay_query |-> sArtVase, reasoning |-> sR1] }

RECURSIVE SeqsUpTo(_, _)
SeqsUpTo(S, n) ==
    IF n = 0 THEN {<<>>}
    ELSE LET shorter == SeqsUpTo(S, n - 1)
         IN  shorter \cup { Append(q, x) : q \in shorter, x \in S }

\* what search_sold returns
MarketPool ==
    { <<>>, <<EbaySoldListing(18, 0)>>,
      <<EbaySoldListing(85, 5), EbaySoldListing(95, 0)>> }

(***************************************************************************)
(* run                                                                     *)
(***************************************************************************)
Multiplier == IF args.multiplier # NoneVal THEN args.multiplier[1] ELSE MinProfitMultiplier

\* the next sale of sales_with_photos at or after position i, or Len(sales) + 1
NextWithPhotos(allSales, i) ==
    LET js == { j \in i..Len(allSales) : allSales[j].photo_urls # <<>> }
    IN  IF js = {} THEN Len(allSales) + 1 ELSE CHOOSE j \in js : \A k \in js : j <= k

CurSale == sales[matched_sales[mk]]
CurItem == CurSale.matched_items[ik]

PipeInit ==
    /\ pc = "search"
    /\ args \in ArgsPool
    /\ cache \in CachePool
    /\ sales = <<>>
    /\ matched_sales = <<>>
    /\ vision_finds = 0
    /\ vision_items = <<>>
    /\ si = 1 /\ vi = 1 /\ mk = 1 /\ ik = 1
    /\ query = <<>> /\ min_price = 0 /\ stats = EmptyStats
    /\ searched = <<>>
    /\ logged = <<>>
    /\ opportunities = <<>>
    /\ shown = NoneVal
    /\ report = NoneVal
    /\ AnIdle /\ MaIdle /\ CaIdle /\ QuIdle /\ ScIdle /\ VbIdle

\* Phase 1: sales = await es_scraper.search_sales(...)
SearchSales ==
    /\ pc = "search"
    /\ \E ids \in SaleIdLists :
          /\ sales' = [i \in DOMAIN ids |-> EstateSale(ids[i])]
          /\ pc' = IF ids = <<>> THEN "done" ELSE "enrich"
    /\ si' = 1
    /\ UNCHANGED <<args, logged, searched, cache, matched_sales, vision_finds, vision_items, vi, mk, ik,
                   query, min_price, stats, opportunities, shown, report, anVars, maVars, caVars, quVars, scVars, vbVars>>

\* await es_scraper.enrich_sale(sale): the description and photos found, none
\* when the page does not load
EnrichSale ==
    /\ pc = "enrich"
    /\ \E d \in DescriptionPool, ph \in PhotoPool :
          sales' = [sales EXCEPT ![si].description = d, ![si].photo_urls = ph]
    /\ IF si < Len(sales) THEN si' = si + 1 /\ pc' = "enrich"
       ELSE si' = 1 /\ pc' = "match"
    /\ UNCHANGED <<args, logged, searched, cache, matched_sales, vision_finds, vision_items, vi, mk, ik,
                   query, min_price, stats, opportunities, shown, report, anVars, maVars, caVars, quVars, scVars, vbVars>>

\* enrich_sale raises past its finally: run has no handler around it
EnrichRaises ==
    /\ pc = "enrich"
    /\ pc' = "aborted"
    /\ UNCHANGED <<args, logged, searched, cache, sales, matched_sales, vision_finds, vision_items, si, vi,
                   mk, ik, query, min_price, stats, opportunities, shown, report,
                   anVars, maVars, caVars, quVars, scVars, vbVars>>

\* Phase 2: items = matcher.match_sale(sale)
MatchSale ==
    /\ pc = "match"
    /\ LET items == match_sale(Brands, sales[si].description)
       IN  IF items # <<>>
           THEN /\ sales' = [sales EXCEPT ![si].matched_items = items]
                /\ matched_sales' = Append(matched_sales, si)
           ELSE UNCHANGED <<sales, matched_sales>>
    /\ IF si < Len(sales) THEN si' = si + 1 /\ pc' = "match"
       ELSE IF args.no_vision \/ NextWithPhotos(sales, 1) > Len(sales)
            THEN si' = 1 /\ pc' = "phase4"
            ELSE si' = NextWithPhotos(sales, 1) /\ pc' = "vision"
    /\ UNCHANGED <<args, logged, searched, cache, vision_finds, vision_items, vi, mk, ik,
                   query, min_price, stats, opportunities, shown, report, anVars, maVars, caVars, quVars, scVars, vbVars>>

\* the loop over sales_with_photos moves on from sale si
NextVisionSale ==
    IF NextWithPhotos(sales, si + 1) > Len(sales)
    THEN si' = 1 /\ pc' = "phase4"
    ELSE si' = NextWithPhotos(sales, si + 1) /\ pc' = "vision"

\* what the vision model answers for the photos of a sale: a JSON list of
\* findings, text that is not JSON, or JSON that is not a list
ResponsePool ==
    { [kind |-> "list", items |-> all_items] : all_items \in SeqsUpTo(FindingPool, MaxFindings) }
    \cup { [kind |-> "garbage"], [kind |-> "object"] }

\* mutant of _analyze_batch: text that does not parse is kept as one finding
_analyze_batch_keeps_text(response) ==
    IF response.kind = "list" THEN response.items
    ELSE IF response.kind = "garbage" THEN <<[reasoning |-> sR1]>>
    ELSE <<>>

\* _analyze_batch: the parsed list, or [] with an error or a warning logged
_analyze_batch(response) == IF response.kind = "list" THEN response.items ELSE <<>>

BatchLog(response, sale) ==
    IF response.kind = "garbage" THEN <<[sale |-> sale, event |-> "json_error"]>>
    ELSE IF response.kind = "object" THEN <<[sale |-> sale, event |-> "bad_format"]>>
    ELSE <<>>

\* Phase 3: vision_items = await vision.analyze_sale_photos(...)
VisionAnalyze ==
    /\ pc = "vision"
    /\ \E response \in ResponsePool :
          /\ vision_items' = analyze_sale_photos(_analyze_batch(response))
          /\ logged' = logged \o BatchLog(response, si)
    /\ vi' = 1
    /\ IF vision_items' = <<>> THEN NextVisionSale ELSE si' = si /\ pc' = "merge"
    /\ UNCHANGED <<args, searched, cache, sales, matched_sales, vision_finds, mk, ik,
                   query, min_price, stats, opportunities, shown, report, anVars, maVars, caVars, quVars, scVars, vbVars>>

\* mutant of VisionRaises: no handler around the analysis of a sale
VisionRaises_aborts ==
    /\ pc = "vision"
    /\ logged' = Append(logged, [sale |-> si, event |-> "vision_failed"])
    /\ pc' = "aborted"
    /\ UNCHANGED <<args, searched, cache, sales, matched_sales, vision_finds, vision_items,
                   si, vi, mk, ik, query, min_price, stats, opportunities, shown, report,
                   anVars, maVars, caVars, quVars, scVars, vbVars>>

\* analyze_sale_photos raises: except Exception logs and the loop goes on
VisionRaises ==
    /\ pc = "vision"
    /\ logged' = Append(logged, [sale |-> si, event |-> "vision_failed"])
    /\ NextVisionSale
    /\ UNCHANGED <<args, searched, cache, sales, matched_sales, vision_finds, vision_items, vi, mk, ik,
                   query, min_price, stats, opportunities, shown, report, anVars, maVars, caVars, quVars, scVars, vbVars>>

FindingBrand == Get(vision_items[vi], "brand", sUnknown)

\* after the finding vi: the next finding, or the next sale (vision_items and
\* the loop position are dead once the loop over the findings ends)
NextFinding ==
    IF vi < Len(vision_items)
    THEN vi' = vi + 1 /\ vision_items' = vision_items /\ si' = si /\ pc' = "merge"
    ELSE vi' = 1 /\ vision_items' = <<>> /\ NextVisionSale

\* the brand was already found on the sale: existing[0] is updated
MergeExisting ==
    /\ pc = "merge"
    /\ LET existing == Existing(sales[si].matched_items, FindingBrand)
       IN  /\ existing # <<>>
           /\ LET k == FirstIndex(sales[si].matched_items, existing[1])
              IN  sales' = [sales EXCEPT
                               ![si].matched_items[k] =
                                   MergeInto(@, Get(vision_items[vi], "reasoning", <<>>))]
    /\ NextFinding
    /\ UNCHANGED <<args, logged, searched, cache, matched_sales, vision_finds, mk, ik,
                   query, min_price, stats, opportunities, shown, report, anVars, maVars, caVars, quVars, scVars, vbVars>>

\* a new vision-only find
MergeNew ==
    /\ pc = "merge"
    /\ Existing(sales[si].matched_items, FindingBrand) = <<>>
    /\ LET f == vision_items[vi]
           item_type == Get(f, "item_type", <<>>)
           sale_item == SaleItem(FindingBrand,
                                 item_type \o <<" ", "(", "i", "d", "e", "n", "t", "i", "f", "i", "e", "d", " ", "b", "y", " ", "A", "I", " ", "v", "i", "s", "i", "o", "n", ")">>,
                                 NoneVal, Get(f, "confidence", 50), "vision", item_type,
                                 Get(f, "reasoning", <<>>), Get(f, "ebay_query", <<>>))
       IN  /\ sales' = [sales EXCEPT ![si].matched_items = Append(@, sale_item)]
           /\ matched_sales' = MarkMatched(sales', matched_sales, si)
    /\ vision_finds' = vision_finds + 1
    /\ NextFinding
    /\ UNCHANGED <<args, logged, searched, cache, mk, ik,
                   query, min_price, stats, opportunities, shown, report, anVars, maVars, caVars, quVars, scVars, vbVars>>

\* mutant of Phase4Check: the price phase is entered without the test
Phase4Check_without_return ==
    /\ pc = "phase4"
    /\ pc' = "price"
    /\ mk' = 1 /\ ik' = 1
    /\ UNCHANGED <<args, logged, searched, cache, sales, matched_sales, vision_finds, vision_items, si, vi,
                   query, min_price, stats, opportunities, shown, report, anVars, maVars, caVars, quVars, scVars, vbVars>>

\* if not matched_sales: return
Phase4Check ==
    /\ pc = "phase4"
    /\ pc' = IF matched_sales = <<>> THEN "done" ELSE "price"
    /\ mk' = 1 /\ ik' = 1
    /\ UNCHANGED <<args, logged, searched, cache, sales, matched_sales, vision_finds, vision_items, si, vi,
                   query, min_price, stats, opportunities, shown, report, anVars, maVars, caVars, quVars, scVars, vbVars>>

\* Phase 4: the cached summary is used
PriceCacheHit ==
    /\ pc = "price"
    /\ query' = ResolveQuery(Brands, CurItem)
    /\ min_price' = ResolveMinPrice(Brands, CurItem)
    /\ UseCached(cache_get(cache, query'), args.no_cache)
    /\ stats' = cache_get(cache, query')[1]
    /\ pc' = "admit"
    /\ UNCHANGED <<args, logged, searched, cache, sales, matched_sales, vision_finds, vision_items, si, vi,
                   mk, ik, opportunities, shown, report, anVars, maVars, caVars, quVars, scVars, vbVars>>

\* Phase 4: search_sold, analyze, cache.set
PriceLiveLookup ==
    /\ pc = "price"
    /\ query' = ResolveQuery(Brands, CurItem)
    /\ min_price' = ResolveMinPrice(Brands, CurItem)
    /\ ~UseCached(cache_get(cache, query'), args.no_cache)
    /\ searched' = Append(searched, query')
    /\ \E listings \in MarketPool : stats' = analyze(listings)
    /\ cache' = cache_set(cache, query', stats')
    /\ pc' = "admit"
    /\ UNCHANGED <<args, logged, sales, matched_sales, vision_finds, vision_items, si, vi,
                   mk, ik, opportunities, shown, report, anVars, maVars, caVars, quVars, scVars, vbVars>>

\* search_sold raises past its finally: run has no handler around it
PriceLookupRaises ==
    /\ pc = "price"
    /\ query' = ResolveQuery(Brands, CurItem)
    /\ min_price' = ResolveMinPrice(Brands, CurItem)
    /\ ~UseCached(cache_get(cache, query'), args.no_cache)
    /\ searched' = Append(searched, query')
    /\ pc' = "aborted"
    /\ UNCHANGED <<args, logged, cache, sales, matched_sales, vision_finds, vision_items, si, vi,
                   mk, ik, stats, opportunities, shown, report, anVars, maVars, caVars, quVars, scVars, vbVars>>

\* the admission and inclusion tests, and progress.advance
Admit ==
    /\ pc = "admit"
    /\ LET profit_mult == ProfitMult(CurItem, stats)
           opp == ArbitrageOpportunity(CurSale, CurItem, stats, profit_mult)
       IN  opportunities' =
              IF Admitted(stats, min_price) /\ Included(profit_mult, Multiplier)
              THEN Append(opportunities, opp) ELSE opportunities
    /\ IF ik < Len(CurSale.matched_items) THEN mk' = mk /\ ik' = ik + 1 /\ pc' = "price"
       ELSE IF mk < Len(matched_sales) THEN mk' = mk + 1 /\ ik' = 1 /\ pc' = "price"
       ELSE mk' = mk /\ ik' = ik /\ pc' = "output"
    /\ UNCHANGED <<args, logged, searched, cache, sales, matched_sales, vision_finds, vision_items, si, vi,
                   query, min_price, stats, shown, report, anVars, maVars, caVars, quVars, scVars, vbVars>>

\* Phase 5: output.display_opportunities(opportunities)
DisplayOpportunities ==
    /\ pc = "output"
    /\ shown' = Some(display_opportunities(opportunities))
    /\ pc' = "report"
    /\ UNCHANGED <<args, logged, searched, cache, sales, matched_sales, vision_finds, vision_items, si, vi,
                   mk, ik, query, min_price, stats, opportunities, report, anVars, maVars, caVars, quVars, scVars, vbVars>>

\* Phase 6: generate_html_report(opportunities, ...)
GenerateReport ==
    /\ pc = "report"
    /\ report' = Some(_build_rows(opportunities))
    /\ pc' = "done"
    /\ UNCHANGED <<args, logged, searched, cache, sales, matched_sales, vision_finds, vision_items, si, vi,
                   mk, ik, query, min_price, stats, opportunities, shown, anVars, maVars, caVars, quVars, scVars, vbVars>>

Next ==
    \/ SearchSales \/ EnrichSale \/ EnrichRaises \/ MatchSale
    \/ VisionAnalyze \/ VisionRaises \/ MergeExisting \/ MergeNew
    \/ Phase4Check \/ PriceCacheHit \/ PriceLiveLookup \/ PriceLookupRaises
    \/ Admit \/ DisplayOpportunities \/ GenerateReport

Spec == PipeInit /\ [][Next]_vars

(***************************************************************************)
(* The run for one sale from Phase 3 on, from the state it is in after     *)
(* Phase 2, with findings that name one brand for two item types and with  *)
(* a multiplier given on the command line                                  *)
(***************************************************************************)
MergeArgsPool ==
    { [multiplier |-> NoneVal,  no_cache |-> FALSE, no_vision |-> FALSE],
      [multiplier |-> Some(30), no_cache |-> FALSE, no_vision |-> FALSE] }

MergeFindingPool ==
    FindingPool \cup { [brand |-> sQiviutCo, item_type |-> sVase, reasoning |-> sR1] }

MgInit ==
    /\ pc = "vision"
    /\ args \in MergeArgsPool
    /\ cache \in CachePool
    /\ \E d \in DescriptionPool :
          LET items == match_sale(Brands, d)
          IN  /\ sales = << [EstateSale(1) EXCEPT !.description = d,
                                                  !.photo_urls = <<"photo">>,
                                                  !.matched_items = items] >>
              /\ matched_sales = IF items # <<>> THEN <<1>> ELSE <<>>
    /\ vision_finds = 0
    /\ vision_items = <<>>
    /\ si = 1 /\ vi = 1 /\ mk = 1 /\ ik = 1
    /\ query = <<>> /\ min_price = 0 /\ stats = EmptyStats
    /\ searched = <<>>
    /\ logged = <<>>
    /\ opportunities = <<>>
    /\ shown = NoneVal
    /\ report = NoneVal
    /\ AnIdle /\ MaIdle /\ CaIdle /\ QuIdle /\ ScIdle /\ VbIdle

\* Phase 3: vision_items = await vision.analyze_sale_photos(...)
MgVisionAnalyze ==
    /\ pc = "vision"
    /\ \E all_items \in SeqsUpTo(MergeFindingPool, MaxFindings) :
          vision_items' = analyze_sale_photos(all_items)
    /\ vi' = 1
    /\ IF vision_items' = <<>> THEN NextVisionSale ELSE si' = si /\ pc' = "merge"
    /\ UNCHANGED <<args, logged, searched, cache, sales, matched_sales, vision_finds, mk, ik,
                   query, min_price, stats, opportunities, shown, report, anVars, maVars, caVars, quVars, scVars, vbVars>>

MgNext ==
    \/ MgVisionAnalyze \/ MergeExisting \/ MergeNew
    \/ Phase4Check \/ PriceCacheHit \/ PriceLiveLookup \/ PriceLookupRaises
    \/ Admit \/ DisplayOpportunities \/ GenerateReport

SpecMerge == MgInit /\ [][MgNext]_vars

(***************************************************************************)
(* BrandMatcher harness                                                    *)
(***************************************************************************)
MaInit ==
    /\ m_brands \in RuleSets
    /\ m_text \in {<<>>, ExampleDescription}
    /\ m_nsegs = 0
    /\ m_items = NoneVal
    /\ AnIdle /\ PipeIdle /\ CaIdle /\ QuIdle /\ ScIdle /\ VbIdle

\* the description grows by one more piece of text
MaAppendSegment ==
    /\ m_items = NoneVal
    /\ m_nsegs < MaxSegs
    /\ \E seg \in TextSegments : m_text' = m_text \o seg
    /\ m_nsegs' = m_nsegs + 1
    /\ UNCHANGED <<m_brands, m_items, anVars, pipeVars, caVars, quVars, scVars, vbVars>>

\* items = matcher.match_sale(sale)
MaMatchSale ==
    /\ m_items = NoneVal
    /\ m_items' = Some(match_sale(m_brands, m_text))
    /\ UNCHANGED <<m_brands, m_text, m_nsegs, anVars, pipeVars, caVars, quVars, scVars, vbVars>>

MaNext == MaAppendSegment \/ MaMatchSale

(***************************************************************************)
(* PriceAnalyzer harness: the listings a marketplace lookup can return     *)
(***************************************************************************)
ListingPool ==
    { EbaySoldListing(10, 0), EbaySoldListing(12, 5), EbaySoldListing(11, 0),
      EbaySoldListing(13, 0), EbaySoldListing(1000, 0) }

AnInit == a_listings = <<>> /\ a_stats = NoneVal /\ MaIdle /\ PipeIdle /\ CaIdle /\ QuIdle /\ ScIdle /\ VbIdle

\* the scraper appends one more parsed listing
AnAppendListing ==
    /\ a_stats = NoneVal
    /\ Len(a_listings) < MaxObs
    /\ \E l \in ListingPool : a_listings' = Append(a_listings, l)
    /\ UNCHANGED <<a_stats, maVars, pipeVars, caVars, quVars, scVars, vbVars>>

\* stats = PriceAnalyzer.analyze(listings)
AnAnalyze ==
    /\ a_stats = NoneVal
    /\ a_stats' = Some(analyze(a_listings))
    /\ UNCHANGED <<a_listings, maVars, pipeVars, caVars, quVars, scVars, vbVars>>

AnNext == AnAppendListing \/ AnAnalyze

(***************************************************************************)
(* Price cache harness: set, get and the passing of time                   *)
(***************************************************************************)
CacheQueries == { sPatagoniaQuery, sArtVase }

\* the summaries run hands to cache.set
SummaryPool == { analyze(listings) : listings \in MarketPool }

pipeRest == <<pc, args, sales, matched_sales, vision_finds, vision_items, si, vi,
              mk, ik, query, min_price, stats, searched, logged, opportunities, shown,
              report>>

CaInit == PipeIdle /\ AnIdle /\ MaIdle /\ CaIdle /\ QuIdle /\ ScIdle /\ VbIdle

\* cache.set(query, stats)
CaSet ==
    /\ \E q \in CacheQueries, summary \in SummaryPool :
          /\ cache' = cache_set(cache, q, summary)
          /\ c_set' = [k \in DOMAIN c_set \cup {q} |->
                          IF k = q THEN [summary |-> summary, hours |-> 0] ELSE c_set[k]]
    /\ c_got' = NoneVal
    /\ UNCHANGED <<pipeRest, anVars, maVars, quVars, scVars, vbVars>>

\* cached = cache.get(query)
CaGet ==
    /\ \E q \in CacheQueries :
          c_got' = Some([query |-> q, result |-> cache_get(cache, q)])
    /\ UNCHANGED <<cache, c_set, pipeRest, anVars, maVars, quVars, scVars, vbVars>>

\* an hour passes
CaTick ==
    /\ \A k \in DOMAIN cache : cache[k].age < MaxHours
    /\ cache # <<>>
    /\ cache' = cache_aged(cache)
    /\ c_set' = [k \in DOMAIN c_set |-> [c_set[k] EXCEPT !.hours = @ + 1]]
    /\ c_got' = NoneVal
    /\ UNCHANGED <<pipeRest, anVars, maVars, quVars, scVars, vbVars>>

CaNext == CaSet \/ CaGet \/ CaTick

SpecCache == CaInit /\ [][CaNext]_vars

(***************************************************************************)
(* Query builder harness: the items whose query run resolves               *)
(***************************************************************************)
MaxPieces == 3

sLeCreuset == <<"L", "e", " ", "C", "r", "e", "u", "s", "e", "t">>
sLongSuffix == <<"e", "n", "a", "m", "e", "l", "e", "d", " ", "c", "a", "s", "t", " ", "i", "r", "o", "n", " ", "d", "u", "t", "c", "h", " ", "o", "v", "e", "n", " ", "s", "i", "g", "n", "a", "t", "u", "r", "e", " ", "r", "o", "u", "n", "d">>
LeCreusetRule == BrandConfig(sLeCreuset, <<LowerStr(sLeCreuset)>>, sLongSuffix, 40)

\* a brand list with a long search suffix
QuBrands == <<PatagoniaRule, OrvisRule, LeCreusetRule>>

sLongQuery == <<"v", "i", "n", "t", "a", "g", "e", " ", "m", "i", "d", " ", "c", "e", "n", "t", "u", "r", "y", " ", "m", "o", "d", "e", "r", "n", " ", "t", "e", "a", "k", " ", "s", "i", "d", "e", "b", "o", "a", "r", "d", " ", "c", "r", "e", "d", "e", "n", "z", "a", " ", "d", "a", "n", "i", "s", "h">>

\* a word of 51 characters
LongWord == [i \in 1..(MaxQueryLen + 1) |-> "x"]

\* item.brand: from a configured rule or from the vision model
BrandPool == { <<>>, LowerStr(sUnknown), sPatagonia, sOrvis, sQiviutCo, sLeCreuset }

\* item.ebay_query
PrecomputedPool == { <<>>, sArtVase, sLongQuery }

\* pieces of the item type the vision model writes
TypePieces ==
    { <<"V", "i", "n", "t", "a", "g", "e", " ", "P", "a", "t", "a", "g", "o", "n", "i", "a">>,
      <<"F", "l", "e", "e", "c", "e", " ", "J", "a", "c", "k", "e", "t">>,
      <<"(", "M", "e", "n", "'", "s", " ", "L", ")">>,
      <<"S", "e", "t", " ", "a", "n", "d">>,
      <<"/", " ", "P", "u", "l", "l", "o", "v", "e", "r">>,
      <<"H", "a", "n", "d", "k", "n", "i", "t", "t", "e", "d", " ", "S", "c", "a", "n", "d", "i", "n", "a", "v", "i", "a", "n">>,
      <<"E", "x", "t", "r", "a", "o", "r", "d", "i", "n", "a", "r", "i", "l", "y", "-", "W", "a", "r", "m">>,
      LongWord }

QuInit ==
    /\ \E brand \in BrandPool, ebay_query \in PrecomputedPool :
          q_item = SaleItem(brand, <<>>, NoneVal, 50, "vision", <<>>, <<>>, ebay_query)
    /\ q_npieces = 0
    /\ q_out = NoneVal
    /\ PipeIdle /\ AnIdle /\ MaIdle /\ CaIdle /\ ScIdle /\ VbIdle

\* the item type grows by one more piece of text
QuAppendPiece ==
    /\ q_out = NoneVal
    /\ q_npieces < MaxPieces
    /\ \E piece \in TypePieces :
          q_item' = [q_item EXCEPT !.item_type =
                        IF @ = <<>> THEN piece ELSE @ \o <<" ">> \o piece]
    /\ q_npieces' = q_npieces + 1
    /\ UNCHANGED <<q_out, pipeVars, anVars, maVars, caVars, scVars, vbVars>>

\* the query and minimum price run resolves for the item
QuResolve ==
    /\ q_out = NoneVal
    /\ q_out' = Some([call |-> "run", query |-> ResolveQuery(QuBrands, q_item),
                      min_price |-> ResolveMinPrice(QuBrands, q_item)])
    /\ UNCHANGED <<q_item, q_npieces, pipeVars, anVars, maVars, caVars, scVars, vbVars>>

\* _simplify_query(item.brand, item.item_type)
QuSimplify ==
    /\ q_out = NoneVal
    /\ q_out' = Some([call |-> "_simplify_query",
                      query |-> _simplify_query(q_item.brand, q_item.item_type),
                      min_price |-> DefaultVisionMinPrice])
    /\ UNCHANGED <<q_item, q_npieces, pipeVars, anVars, maVars, caVars, scVars, vbVars>>

QuNext == QuAppendPiece \/ QuResolve \/ QuSimplify

SpecQuery == QuInit /\ [][QuNext]_vars

(***************************************************************************)
(* scrapers/base.py and scrapers/ebay.py: _rate_limit, _safe_get and       *)
(* search_sold.  s_trace records what reaches the marketplace and the      *)
(* clock: an event [ev, page, n] where n is the jitter in tenths of a      *)
(* rate-limit delay, the attempt of a page load, the seconds of a backoff  *)
(* sleep or the number of listings parsed from a page.                     *)
(***************************************************************************)
MaxPages == 3
DefaultMaxRetries == 3
PageSize == 10

\* samples of random.uniform(0.5, 1.5), in tenths
JitterTenths == { 5, 10, 15 }

\* numbers of listings _parse_listing accepts on a page
PageCounts == { 0, PageSize - 1, PageSize, PageSize + 2 }

Event(ev, page, n) == [ev |-> ev, page |-> page, n |-> n]

\* the listings parsed from a page, in the order of the page
PageListings(page_num, page_count) == [k \in 1..page_count |-> [page |-> page_num, idx |-> k]]

\* mutant of IsLastAttempt: the last attempt is looked for one past the end
IsLastAttempt_off_by_one(attempt, max_retries) == attempt = max_retries

\* attempt == max_retries - 1
IsLastAttempt(attempt, max_retries) == attempt = max_retries - 1

\* mutant of ContinuePaging: a short page does not end the search
ContinuePaging_past_short_page(page_count, page_num, max_pages) == page_num < max_pages

\* the for loop of search_sold goes on: no break on a short page, pages left
ContinuePaging(page_count, page_num, max_pages) ==
    page_count >= PageSize /\ page_num < max_pages

ScInit == ScIdle /\ PipeIdle /\ AnIdle /\ MaIdle /\ CaIdle /\ QuIdle /\ VbIdle

\* a caller awaits _safe_get(page, url, max_retries=...)
ScCallSafeGet ==
    /\ s_pc = "idle"
    /\ \E max_retries \in 0..DefaultMaxRetries :
          s_args' = [call |-> "_safe_get", max_pages |-> 1, max_retries |-> max_retries]
    /\ s_pc' = "goto"
    /\ UNCHANGED <<s_page_num, s_attempt, s_listings, s_success, s_trace,
                   pipeVars, anVars, maVars, caVars, quVars, vbVars>>

\* run awaits search_sold(query, max_pages): all_listings = [], first page
ScSearchSold ==
    /\ s_pc = "idle"
    /\ \E max_pages \in 0..MaxPages :
          /\ s_args' = [call |-> "search_sold", max_pages |-> max_pages,
                        max_retries |-> DefaultMaxRetries]
          /\ s_pc' = IF max_pages = 0 THEN "returned" ELSE "rate_limit"
    /\ UNCHANGED <<s_page_num, s_attempt, s_listings, s_success, s_trace,
                   pipeVars, anVars, maVars, caVars, quVars, vbVars>>

\* await self._rate_limit(), then _safe_get starts with attempt 0
ScRateLimit ==
    /\ s_pc = "rate_limit"
    /\ \E jitter \in JitterTenths :
          s_trace' = Append(s_trace, Event("rate_limit", s_page_num, jitter))
    /\ s_attempt' = 0
    /\ s_pc' = "goto"
    /\ UNCHANGED <<s_args, s_page_num, s_listings, s_success,
                   pipeVars, anVars, maVars, caVars, quVars, vbVars>>

\* page.goto and wait_for_selector succeed: return True
ScGotoOk ==
    /\ s_pc = "goto"
    /\ s_attempt < s_args.max_retries
    /\ s_trace' = Append(s_trace, Event("goto_ok", s_page_num, s_attempt))
    /\ s_success' = Some(TRUE)
    /\ s_pc' = IF s_args.call = "_safe_get" THEN "returned" ELSE "parse"
    /\ UNCHANGED <<s_args, s_page_num, s_attempt, s_listings,
                   pipeVars, anVars, maVars, caVars, quVars, vbVars>>

\* page.goto or wait_for_selector raises: return False after the last
\* attempt (search_sold then breaks), else sleep 2 ** attempt and go on
ScGotoFails ==
    /\ s_pc = "goto"
    /\ s_attempt < s_args.max_retries
    /\ IF IsLastAttempt(s_attempt, s_args.max_retries)
       THEN /\ s_trace' = Append(s_trace, Event("goto_failed", s_page_num, s_attempt))
            /\ s_success' = Some(FALSE)
            /\ s_pc' = "returned"
            /\ s_attempt' = s_attempt
       ELSE /\ s_trace' = s_trace \o << Event("goto_failed", s_page_num, s_attempt),
                                        Event("sleep", s_page_num, 2 ^ s_attempt) >>
            /\ s_attempt' = s_attempt + 1
            /\ UNCHANGED <<s_success, s_pc>>
    /\ UNCHANGED <<s_args, s_page_num, s_listings,
                   pipeVars, anVars, maVars, caVars, quVars, vbVars>>

\* range(max_retries) is exhausted: the return False after the loop
ScRetriesExhausted ==
    /\ s_pc = "goto"
    /\ s_attempt >= s_args.max_retries
    /\ s_success' = Some(FALSE)
    /\ s_pc' = "returned"
    /\ UNCHANGED <<s_args, s_page_num, s_attempt, s_listings, s_trace,
                   pipeVars, anVars, maVars, caVars, quVars, vbVars>>

\* the cards of the page are parsed and appended; break on a short page
ScParse ==
    /\ s_pc = "parse"
    /\ \E page_count \in PageCounts :
          /\ s_listings' = s_listings \o PageListings(s_page_num, page_count)
          /\ s_trace' = Append(s_trace, Event("parsed", s_page_num, page_count))
          /\ IF ContinuePaging(page_count, s_page_num, s_args.max_pages)
             THEN s_page_num' = s_page_num + 1 /\ s_pc' = "rate_limit"
             ELSE s_page_num' = s_page_num /\ s_pc' = "returned"
    /\ UNCHANGED <<s_args, s_attempt, s_success,
                   pipeVars, anVars, maVars, caVars, quVars, vbVars>>

ScNext ==
    \/ ScCallSafeGet \/ ScSearchSold \/ ScRateLimit \/ ScGotoOk \/ ScGotoFails
    \/ ScRetriesExhausted \/ ScParse

SpecScraper == ScInit /\ [][ScNext]_vars

(***************************************************************************)
(* vision/photo_analyzer.py: analyze_sale_photos, its downloads and its    *)
(* batches.  An image is the position of its URL in photo_urls.            *)
(***************************************************************************)
MaxUrls == 4

\* what the model endpoint does for a batch: the answers of ResponsePool,
\* a call that raises, or a response body that is not JSON
BatchResponsePool == ResponsePool \cup { [kind |-> "api_error"], [kind |-> "bad_body"] }

\* _analyze_batch raises: json.loads of the response body fails before text
\* is assigned, and the handler of JSONDecodeError reads text
BatchRaises(response) == response.kind = "bad_body"

\* images[i : i + max_photos_per_batch], i counted from 0
BatchAt(images, i, per_batch) ==
    SubSeq(images, i + 1, Min2(i + per_batch, Len(images)))

\* the members of a set of positions in increasing order
RECURSIVE Ascending(_)
Ascending(S) ==
    IF S = {} THEN <<>>
    ELSE LET least == CHOOSE x \in S : \A y \in S : x <= y
         IN  <<least>> \o Ascending(S \ {least})

VbInit == VbIdle /\ PipeIdle /\ AnIdle /\ MaIdle /\ CaIdle /\ QuIdle /\ ScIdle

\* analyze_sale_photos(photo_urls, max_photos): urls_to_process
VbCall ==
    /\ b_pc = "idle"
    /\ \E nurls \in 0..MaxUrls, max_photos \in {2, 3}, per_batch \in {1, 2} :
          /\ b_args' = [nurls |-> nurls, max_photos |-> max_photos, per_batch |-> per_batch]
          /\ IF nurls = 0
             THEN b_pc' = "returned" /\ b_result' = Some(<<>>)
             ELSE b_pc' = "download" /\ b_result' = NoneVal
    /\ UNCHANGED <<b_images, b_i, b_all_items, b_sent,
                   pipeVars, anVars, maVars, caVars, quVars, scVars>>

\* images = await self._download_photos(urls_to_process): the downloads
\* that succeeded, in the order of the URLs
VbDownload ==
    /\ b_pc = "download"
    /\ \E ok \in SUBSET (1..Min2(b_args.nurls, b_args.max_photos)) :
          /\ b_images' = Ascending(ok)
          /\ IF ok = {}
             THEN b_pc' = "returned" /\ b_result' = Some(<<>>)
             ELSE b_pc' = "batch" /\ b_result' = NoneVal
    /\ b_i' = 0
    /\ b_all_items' = <<>>
    /\ UNCHANGED <<b_args, b_sent, pipeVars, anVars, maVars, caVars, quVars, scVars>>

\* one turn of the batch loop; after the last batch the findings are
\* deduplicated and returned
VbBatch ==
    /\ b_pc = "batch"
    /\ \E response \in BatchResponsePool :
          /\ ~BatchRaises(response)
          /\ b_sent' = Append(b_sent, [images |-> BatchAt(b_images, b_i, b_args.per_batch),
                                       response |-> response])
          /\ b_all_items' = b_all_items \o _analyze_batch(response)
    /\ b_i' = b_i + b_args.per_batch
    /\ IF b_i' < Len(b_images)
       THEN b_pc' = "batch" /\ b_result' = NoneVal
       ELSE b_pc' = "returned" /\ b_result' = Some(analyze_sale_photos(b_all_items'))
    /\ UNCHANGED <<b_args, b_images, pipeVars, anVars, maVars, caVars, quVars, scVars>>

\* the exception of _analyze_batch leaves analyze_sale_photos
VbBatchRaises ==
    /\ b_pc = "batch"
    /\ \E response \in BatchResponsePool :
          /\ BatchRaises(response)
          /\ b_sent' = Append(b_sent, [images |-> BatchAt(b_images, b_i, b_args.per_batch),
                                       response |-> response])
    /\ b_pc' = "raised"
    /\ UNCHANGED <<b_args, b_images, b_i, b_all_items, b_result,
                   pipeVars, anVars, maVars, caVars, quVars, scVars>>

VbNext == VbCall \/ VbDownload \/ VbBatch \/ VbBatchRaises

SpecVision == VbInit /\ [][VbNext]_vars

SpecAnalyzer == AnInit /\ [][AnNext]_vars

SpecMatcher == MaInit /\ [][MaNext]_vars

(***************************************************************************)
(* Properties                                                              *)
(***************************************************************************)

\* the minimum price the claim describes for a brand
MinimumPriceOf(brand) ==
    IF \E r \in DOMAIN Brands : Brands[r].name = brand
    THEN Brands[CHOOSE r \in DOMAIN Brands : Brands[r].name = brand].min_ebay_price
    ELSE 15

\* C1: an opportunity enters the output list only when the price summary
\* resolved for its item has count > 0 and median >= the item's minimum price
\* (the rule's min_ebay_price for a configured brand, 15 otherwise).
C1_AdmissionRule ==
    [][opportunities' # opportunities =>
          /\ pc = "admit"
          /\ stats.count > 0
          /\ stats.median >= 100 * MinimumPriceOf(CurItem.brand)
          /\ Len(opportunities') = Len(opportunities) + 1
          /\ SubSeq(opportunities', 1, Len(opportunities)) = opportunities
          /\ LET o == opportunities'[Len(opportunities')]
             IN  /\ o.matched_brand = CurItem.brand
                 /\ o.ebay_sample_count = stats.count
                 /\ o.ebay_median_sold = stats.median]_vars

\* an unconfigured brand admitted between 15 and 20, next to a configured one
C1_Witness ==
    /\ \E i \in DOMAIN opportunities :
          /\ opportunities[i].matched_brand = sQiviutCo
          /\ opportunities[i].ebay_median_sold = 1800
    /\ \E i \in DOMAIN opportunities :
          /\ opportunities[i].matched_brand = sPatagonia
          /\ opportunities[i].ebay_median_sold >= 2000

\* C2: an item that passes admission is in the output list if and only if its
\* profit multiplier is undefined or >= the threshold; the multiplier is
\* median / estimate when the estimate is present and positive, undefined when
\* it is absent, zero or negative.
C2_InclusionRule ==
    [][(pc = "admit" /\ stats.count > 0 /\ stats.median >= 100 * min_price) =>
          LET est == CurItem.estimated_price
              undefined == est = NoneVal \/ est[1] <= 0
              meets == ~undefined /\ 10 * stats.median >= Multiplier * est[1]
          IN  IF undefined \/ meets
              THEN /\ Len(opportunities') = Len(opportunities) + 1
                   /\ opportunities'[Len(opportunities')].matched_brand = CurItem.brand
                   /\ opportunities'[Len(opportunities')].profit_multiplier =
                         IF undefined THEN NoneVal
                         ELSE Some([num |-> stats.median, den |-> est[1]])
              ELSE opportunities' = opportunities]_vars

\* a multiplier exactly at the threshold and a zero estimate, both in the output
C2_Witness ==
    /\ \E i \in DOMAIN opportunities :
          /\ opportunities[i].profit_multiplier = Some([num |-> 9000, den |-> 4500])
          /\ Multiplier = 20
    /\ \E i \in DOMAIN opportunities :
          /\ opportunities[i].estate_price_estimate = Some(0)
          /\ opportunities[i].profit_multiplier = NoneVal

\* the place of opportunity i in the ranking the claim describes
RankOf(opps, i) ==
    1 + Cardinality({ j \in DOMAIN opps :
                        \/ opps[j].ebay_median_sold > opps[i].ebay_median_sold
                        \/ /\ opps[j].ebay_median_sold = opps[i].ebay_median_sold
                           /\ j < i })

IsStableRanking(ranked, opps) ==
    /\ Len(ranked) = Len(opps)
    /\ \A i \in DOMAIN opps : ranked[RankOf(opps, i)] = opps[i]

\* C3: the ranked list shown is a permutation of the output opportunities in
\* non-increasing order of median, opportunities of equal median in the order
\* in which they were appended.
C3_StableRanking ==
    /\ shown # NoneVal => IsStableRanking(shown[1], opportunities)
    /\ report # NoneVal => IsStableRanking(report[1], opportunities)

\* a ranking that had to move an opportunity and to keep two of equal median
C3_Witness ==
    /\ shown # NoneVal /\ report # NoneVal
    /\ \E i, j \in DOMAIN opportunities :
          /\ i < j
          /\ opportunities[i].ebay_median_sold < opportunities[j].ebay_median_sold
    /\ \E i, j \in DOMAIN opportunities :
          /\ i < j
          /\ opportunities[i].ebay_median_sold = opportunities[j].ebay_median_sold
          /\ opportunities[i] # opportunities[j]

\* C4: no sale has two candidate items of the same brand, after text matching
\* and any sequence of merged vision findings.
C4_OneItemPerBrand ==
    \A s \in DOMAIN sales :
        \A i, j \in DOMAIN sales[s].matched_items :
            sales[s].matched_items[i].brand = sales[s].matched_items[j].brand => i = j

\* a brand found by text was detected again by vision, and the merge is over
C4_Witness ==
    /\ pc = "phase4"
    /\ \E s \in DOMAIN sales :
          /\ Len(sales[s].matched_items) >= 2
          /\ \E i \in DOMAIN sales[s].matched_items :
                sales[s].matched_items[i].source = "both"

\* C7: a finding whose brand equals the brand of an item of the sale sets that
\* item's provenance to both and its reasoning to the finding's, and leaves
\* its estimate, description, confidence and query, the number of items, the
\* matched sales and the vision_finds counter unchanged.
C7_MergeIntoExisting ==
    [][(/\ pc = "merge"
        /\ \E k \in DOMAIN sales[si].matched_items :
              sales[si].matched_items[k].brand = FindingBrand) =>
          LET items == sales[si].matched_items
              after == sales'[si].matched_items
              k0 == CHOOSE k \in DOMAIN items :
                       /\ items[k].brand = FindingBrand
                       /\ \A j \in DOMAIN items : items[j].brand = FindingBrand => k <= j
          IN  /\ Len(after) = Len(items)
              /\ after[k0].source = "both"
              /\ after[k0].reasoning = Get(vision_items[vi], "reasoning", <<>>)
              /\ after[k0].estimated_price = items[k0].estimated_price
              /\ after[k0].description = items[k0].description
              /\ after[k0].confidence = items[k0].confidence
              /\ after[k0].ebay_query = items[k0].ebay_query
              /\ \A j \in DOMAIN items : j # k0 => after[j] = items[j]
              /\ matched_sales' = matched_sales
              /\ vision_finds' = vision_finds]_vars

\* a text item that a finding was merged into keeps its estimate
C7_Witness ==
    \E s \in DOMAIN sales : \E i \in DOMAIN sales[s].matched_items :
        /\ sales[s].matched_items[i].source = "both"
        /\ sales[s].matched_items[i].reasoning = sR1
        /\ sales[s].matched_items[i].estimated_price = Some(4500)
        /\ sales[s].matched_items[i].confidence = 100

\* C8: a finding whose brand is on no item of the sale appends exactly one item
\* with provenance vision (confidence, item type, reasoning and query from the
\* finding) at the end of the sale's items; the sale is among the matched
\* sales afterwards and is added only if it was absent.
C8_AppendNewVisionItem ==
    [][(/\ pc = "merge"
        /\ \A k \in DOMAIN sales[si].matched_items :
              sales[si].matched_items[k].brand # FindingBrand) =>
          LET items == sales[si].matched_items
              after == sales'[si].matched_items
              f == vision_items[vi]
              new == after[Len(after)]
          IN  /\ Len(after) = Len(items) + 1
              /\ SubSeq(after, 1, Len(items)) = items
              /\ new.source = "vision"
              /\ new.brand = FindingBrand
              /\ new.confidence = Get(f, "confidence", 50)
              /\ new.item_type = Get(f, "item_type", <<>>)
              /\ new.reasoning = Get(f, "reasoning", <<>>)
              /\ new.ebay_query = Get(f, "ebay_query", <<>>)
              /\ \E k \in DOMAIN matched_sales' : sales'[matched_sales'[k]] = sales'[si]
              /\ \/ matched_sales' = matched_sales
                 \/ /\ matched_sales' = Append(matched_sales, si)
                    /\ \A k \in DOMAIN matched_sales : sales'[matched_sales[k]] # sales'[si]]_vars

\* a sale without text match became a matched sale by its vision item, and a
\* text-matched sale got a vision item without being added again
C8_Witness ==
    /\ \E s \in DOMAIN sales :
          /\ Len(sales[s].matched_items) = 1
          /\ sales[s].matched_items[1].source = "vision"
          /\ sales[s].matched_items[1].brand = sQiviutCo
          /\ \E k \in DOMAIN matched_sales : matched_sales[k] = s
    /\ \E s \in DOMAIN sales :
          /\ Len(sales[s].matched_items) = 2
          /\ sales[s].matched_items[1].source = "text"
          /\ sales[s].matched_items[2].source = "vision"
          /\ Cardinality({k \in DOMAIN matched_sales : matched_sales[k] = s}) = 1

\* term occurs in text as a whole word, compared case-insensitively
WholeWordAt(text, term, i) ==
    /\ i + Len(term) <= Len(text)
    /\ \A j \in 1..Len(term) : Lower(text[i + j]) = Lower(term[j])
    /\ i = 0 \/ ~IsWordChar(text[i])
    /\ i + Len(term) = Len(text) \/ ~IsWordChar(text[i + Len(term) + 1])

OccursAsWord(text, term) == \E i \in 0..Len(text) : WholeWordAt(text, term, i)

RuleNamed(brands, name) == brands[CHOOSE r \in DOMAIN brands : brands[r].name = name]

WindowEstimate(text, rule) ==
    LET terms == rule.search_terms
        t0 == CHOOSE t \in DOMAIN terms :
                 /\ OccursAsWord(text, terms[t])
                 /\ \A u \in DOMAIN terms : OccursAsWord(text, terms[u]) => t <= u
        s0 == CHOOSE i \in 0..Len(text) :
                 /\ WholeWordAt(text, terms[t0], i)
                 /\ \A k \in 0..Len(text) : WholeWordAt(text, terms[t0], k) => i <= k
        lo == IF s0 - PriceWindow < 0 THEN 0 ELSE s0 - PriceWindow
        hi == IF s0 + Len(terms[t0]) + PriceWindow > Len(text) THEN Len(text)
              ELSE s0 + Len(terms[t0]) + PriceWindow
        inWindow == SubSeq(text, 1, hi)
        dollars == { q \in (lo + 1)..(hi - 1) : text[q] = "$" /\ IsDigit(text[q + 1]) }
    IN  IF dollars = {} THEN NoneVal
        ELSE LET q0 == CHOOSE q \in dollars : \A r \in dollars : q <= r
                 e  == CentsEnd(inWindow, GroupsEnd(inWindow, DigitsEnd(inWindow, q0 + 1)))
             IN  Some(FloatCents(SubSeq(inWindow, q0 + 1, e - 1), 0))

\* C6: the estimate of a text-matched item is the first dollar amount in the
\* window from 200 characters before to 200 characters after the match of the
\* brand's first matching term (clipped to the text), absent when the window
\* holds none; confidence is 1.0 and provenance is text; the Patagonia example
\* gives 45.0.
C6_EstimateFromWindow ==
    m_items # NoneVal =>
        LET items == m_items[1] IN
        /\ \A i \in DOMAIN items :
              /\ items[i].estimated_price
                    = WindowEstimate(m_text, RuleNamed(m_brands, items[i].brand))
              /\ items[i].confidence = 100
              /\ items[i].source = "text"
        /\ (m_text = ExampleDescription /\ m_brands = <<PatagoniaRule>>)
           => /\ Len(items) = 1
              /\ items[1].brand = sPatagonia
              /\ items[1].estimated_price = Some(4500)

\* the example of the claim, and an amount more than 100 characters from the match
C6_Witness ==
    /\ m_items # NoneVal
    /\ \/ /\ m_text = ExampleDescription
          /\ m_brands = <<PatagoniaRule>>
          /\ m_items[1][1].estimated_price = Some(4500)
       \/ /\ m_text = sPatagonia \o Pad(PriceWindow - 2) \o <<"$", "4", "5">>
          /\ m_items[1][1].estimated_price = Some(400)

C9Input ==
    << EbaySoldListing(10, 0), EbaySoldListing(12, 5), EbaySoldListing(11, 0),
       EbaySoldListing(13, 0), EbaySoldListing(1000, 0) >>

\* C9 as stated: for [10, 12, 11, 13, 1000] analyze discards 1000 and returns
\* count 4, median 11.5, mean 11.5, min 10, max 13.
C9_Original ==
    (a_listings = C9Input /\ a_stats # NoneVal) =>
        a_stats[1] = [count |-> 4, median |-> 1150, average |-> 1150,
                      min |-> 1000, max |-> 1300]

\* C9 as amended: for [10, 12, 11, 13, 1000] analyze discards nothing
\* (|1000 - 209.2| = 790.8 <= 2 * 442.07) and returns count 5, median 12,
\* mean 209.2, min 10, max 1000.
C9_ExampleKeepsAll ==
    (a_listings = C9Input /\ a_stats # NoneVal) =>
        a_stats[1] = [count |-> 5, median |-> 1200, average |-> 20920,
                      min |-> 1000, max |-> 100000]

C9_Witness == a_listings = C9Input /\ a_stats # NoneVal

\* the k-th smallest of the sold prices (1 <= k <= number of listings)
KthSoldPrice(listings, k) ==
    CHOOSE x \in {listings[i].sold_price : i \in DOMAIN listings} :
        /\ Cardinality({i \in DOMAIN listings : listings[i].sold_price < x}) < k
        /\ Cardinality({i \in DOMAIN listings : listings[i].sold_price <= x}) >= k

\* C10: for a non-empty list of fewer than 5 observations analyze returns
\* count = the list length and median, mean, min and max over all sold prices
\* (shipping excluded): nothing is discarded.
C10_ShortListUntrimmed ==
    (a_stats # NoneVal /\ Len(a_listings) >= 1 /\ Len(a_listings) < 5) =>
        LET n == Len(a_listings)
            st == a_stats[1]
            total == SumSeq([i \in 1..n |-> a_listings[i].sold_price])
        IN  /\ st.count = n
            /\ st.median = 50 * (KthSoldPrice(a_listings, (n + 1) \div 2)
                                 + KthSoldPrice(a_listings, n \div 2 + 1))
            /\ 2 * Abs(st.average * n - 100 * total) <= n
            /\ \E i \in 1..n : st.min = 100 * a_listings[i].sold_price
            /\ \A i \in 1..n : st.min <= 100 * a_listings[i].sold_price
            /\ \E i \in 1..n : st.max = 100 * a_listings[i].sold_price
            /\ \A i \in 1..n : st.max >= 100 * a_listings[i].sold_price

\* four observations, one of them far from the others and one with shipping
C10_Witness ==
    /\ a_stats # NoneVal
    /\ Len(a_listings) = 4
    /\ \E i \in 1..4 : a_listings[i].sold_price = 1000
    /\ \E i \in 1..4 : a_listings[i].shipping_cost > 0
    /\ a_stats[1].count = 4

\* C11: analyze returns count = 0, with median, mean, min and max all 0, if
\* and only if the list of listings is empty; for every non-empty list the
\* count is at least 1 (and at most the length of the list).
C11_CountZeroIffEmpty ==
    a_stats # NoneVal =>
        /\ a_listings = <<>> => a_stats[1] = EmptyStats
        /\ a_stats[1].count = 0 => a_listings = <<>>
        /\ a_listings # <<>> =>
              /\ a_stats[1].count >= 1
              /\ a_stats[1].count <= Len(a_listings)

\* a list from which the trimming discarded an observation
C11_Witness ==
    /\ a_stats # NoneVal
    /\ Len(a_listings) >= MinTrimLen
    /\ a_stats[1].count >= 1
    /\ a_stats[1].count < Len(a_listings)

\* the listings with the positions i and j exchanged
SwapListings(listings, i, j) ==
    [k \in DOMAIN listings |->
        IF k = i THEN listings[j] ELSE IF k = j THEN listings[i] ELSE listings[k]]

\* C12: analyze returns the same count, median, mean, min and max for a list
\* and for every reordering of it.  Every list within the bound is analysed
\* and compared with each list that differs from it by the exchange of two
\* neighbours; these exchanges generate every permutation.
C12_OrderInvariant ==
    a_stats # NoneVal =>
        \A i \in 1..(Len(a_listings) - 1) :
            analyze(SwapListings(a_listings, i, i + 1)) = a_stats[1]

\* a list given with its outlier first, which the trimming discards
C12_Witness ==
    /\ a_stats # NoneVal
    /\ Len(a_listings) = 6
    /\ a_listings[1].sold_price = 1000
    /\ a_listings[2].sold_price < a_listings[6].sold_price
    /\ a_stats[1].count = 5
    /\ a_stats[1].max < 100000

\* the cache holds a summary for the query that is not expired
CacheHolds(q) == q \in DOMAIN cache /\ cache[q].age <= CacheTtlHours

\* C13: in the price-lookup phase search_sold is called with the query resolved
\* for the item if and only if the cache lookup misses or the bypass flag is set; on a hit
\* without bypass the cached summary becomes the item's summary, search_sold
\* is not called and the cache is not written.
C13_LookupIffMissOrBypass ==
    [][pc = "price" =>
          LET q == query'
          IN  IF CacheHolds(q) /\ ~args.no_cache
              THEN /\ searched' = searched
                   /\ cache' = cache
                   /\ stats' = cache[q].summary
              ELSE searched' = Append(searched, q)]_vars

\* one item was looked up live and the next one is served from the cache
C13_Witness ==
    /\ pc = "admit"
    /\ searched = <<sOrvis>>
    /\ query = sPatagoniaQuery
    /\ stats = StatsOf(<<120, 130>>)

BrandAndSuffix(brand, suffix) == IF suffix = <<>> THEN brand ELSE brand \o <<" ">> \o suffix

\* C15: for an item whose brand is a configured brand name the query is the
\* brand followed by the rule's suffix, trimmed, and the minimum price is the
\* rule's, whatever precomputed query the item carries; for any other item
\* the minimum price is 15 and the query is the precomputed query if it is
\* not empty, else the query synthesized from brand and item type.
C15_ResolvedQueryAndMinimum ==
    [][pc = "price" =>
          LET item == CurItem
              rules == { r \in DOMAIN Brands : Brands[r].name = item.brand }
          IN  IF rules # {}
              THEN \E r \in rules :
                      /\ query' = BrandAndSuffix(item.brand, Brands[r].ebay_search_suffix)
                      /\ min_price' = Brands[r].min_ebay_price
              ELSE /\ min_price' = 15
                   /\ query' = IF item.ebay_query # <<>> THEN item.ebay_query
                               ELSE _simplify_query(item.brand, item.item_type)]_vars

\* a vision item of a configured brand that carries a precomputed query was
\* priced with the configured query, after an item of an unconfigured brand
\* without precomputed query was priced with the synthesized one
C15_Witness ==
    /\ pc = "admit"
    /\ CurItem.brand = sPatagonia
    /\ CurItem.source = "vision"
    /\ CurItem.ebay_query = sFleece
    /\ query = sPatagoniaQuery
    /\ min_price = 20
    /\ \E k \in DOMAIN searched : searched[k] = sQiviutQuery

\* the query of an item before any shortening: what C16 calls the untruncated string
UntruncatedQuery(brands, item) ==
    LET rules == { r \in DOMAIN brands : brands[r].name = item.brand }
    IN  IF rules # {}
        THEN BrandAndSuffix(item.brand, brands[CHOOSE r \in rules : TRUE].ebay_search_suffix)
        ELSE IF item.ebay_query # <<>> THEN item.ebay_query
        ELSE query_before_cut(item.brand, item.item_type)

IsPrefix(a, b) == Len(a) <= Len(b) /\ SubSeq(b, 1, Len(a)) = a

\* the first n characters of full end inside a word
CutsWord(full, n) ==
    /\ n >= 1 /\ n < Len(full)
    /\ ~IsSpace(full[n]) /\ ~IsSpace(full[n + 1])

\* C16 as stated: for every item (every brand, item type, precomputed query
\* and configured suffix) the query resolved is at most 50 characters long and,
\* when it was shortened, ends at a whole-word boundary of the untruncated string.
C16_Original ==
    (q_out # NoneVal /\ q_out[1].call = "run") =>
        LET out  == q_out[1].query
            full == UntruncatedQuery(QuBrands, q_item)
        IN  /\ Len(out) <= 50
            /\ out # full => (IsPrefix(out, full) /\ ~CutsWord(full, Len(out)))

\* the item's query is synthesized: no configured brand, no precomputed query
IsSynthesized(brands, item) ==
    /\ \A r \in DOMAIN brands : brands[r].name # item.brand
    /\ item.ebay_query = <<>>

\* C16 as amended: a query synthesized from brand and item type is at most 50
\* characters long; it is shortened only when the untruncated string is
\* longer than 50 characters, and is then the part of it before the last space
\* among its first 50 characters, or those 50 characters when they hold no
\* space.  The query of a configured brand (brand and suffix) and a precomputed
\* query are used whole, whatever their length.
C16_SynthesizedQueryBounded ==
    q_out # NoneVal =>
        LET out  == q_out[1].query
            full == query_before_cut(q_item.brand, q_item.item_type)
            head == SubSeq(full, 1, 50)
        IN  IF q_out[1].call = "run" /\ ~IsSynthesized(QuBrands, q_item)
            THEN out = UntruncatedQuery(QuBrands, q_item)
            ELSE /\ Len(out) <= 50
                 /\ Len(full) <= 50 => out = full
                 /\ Len(full) > 50 =>
                       /\ IsPrefix(out, full)
                       /\ IF \E i \in 1..50 : head[i] = " "
                          THEN /\ full[Len(out) + 1] = " "
                               /\ \A i \in (Len(out) + 2)..50 : full[i] # " "
                               /\ ~CutsWord(full, Len(out))
                          ELSE out = head

\* a synthesized query that was cut back to its last whole word
C16_Witness ==
    /\ q_out # NoneVal
    /\ q_out[1].call = "run"
    /\ q_item.brand = sQiviutCo
    /\ q_item.ebay_query = <<>>
    /\ Len(query_before_cut(q_item.brand, q_item.item_type)) > 50
    /\ q_out[1].query = <<"Q", "i", "v", "i", "u", "t", " ", "C", "o", " ", "H", "a", "n", "d", "k", "n", "i", "t", "t", "e", "d", " ", "S", "c", "a", "n", "d", "i", "n", "a", "v", "i", "a", "n">>

\* the brand the claim puts in front: none for an empty or unknown brand
ClaimBrand(brand) == IF brand = <<>> \/ LowerStr(brand) = LowerStr(sUnknown) THEN <<>> ELSE brand

\* the tokens of the item type after the three removals of the claim
ClaimTokens(brand, item_type) ==
    LET cleared == BeforeSlash(StripParens(item_type))
    IN  SplitWords(IF ClaimBrand(brand) = <<>> THEN cleared
                   ELSE RemoveIgnoreCase(cleared, ClaimBrand(brand)))

\* the tokens at the positions of idx, in their order
TokensAt(tokens, idx) ==
    [n \in 1..Cardinality(idx) |->
        tokens[CHOOSE i \in idx : Cardinality({ j \in idx : j < i }) = n - 1]]

\* the tokens the claim keeps: the first 3 outside the stoplist, or the first
\* 2 of all when every token is a stoplist word
ClaimKept(brand, item_type) ==
    LET tokens  == ClaimTokens(brand, item_type)
        nonstop == { i \in DOMAIN tokens : LowerStr(tokens[i]) \notin Noise }
    IN  IF nonstop = {}
        THEN TokensAt(tokens, { i \in DOMAIN tokens : i <= 2 })
        ELSE TokensAt(tokens, { i \in nonstop : Cardinality({ j \in nonstop : j < i }) < 3 })

\* the brand followed by the first n of the kept tokens
ClaimQueryOf(brand, item_type, n) ==
    JoinWords((IF ClaimBrand(brand) = <<>> THEN <<>> ELSE <<ClaimBrand(brand)>>)
              \o FirstN(ClaimKept(brand, item_type), n))

\* the string the claim describes
ClaimQuery(brand, item_type) == ClaimQueryOf(brand, item_type, 3)

sExampleType == <<"V", "i", "n", "t", "a", "g", "e", " ", "P", "a", "t", "a", "g", "o", "n", "i", "a", " ", "F", "l", "e", "e", "c", "e", " ", "J", "a", "c", "k", "e", "t", " ", "(", "M", "e", "n", "'", "s", " ", "L", ")">>
sExampleQuery == <<"P", "a", "t", "a", "g", "o", "n", "i", "a", " ", "F", "l", "e", "e", "c", "e", " ", "J", "a", "c", "k", "e", "t">>

Logs(event) == logged' = Append(logged, [sale |-> si, event |-> event])

\* the vision loop moves from sale si to the next sale with photos, or ends
MovesToNextSale ==
    LET later == { j \in (si + 1)..Len(sales) : sales[j].photo_urls # <<>> }
    IN  IF later = {} THEN pc' = "phase4"
        ELSE pc' = "vision" /\ si' = CHOOSE j \in later : \A k \in later : j <= k

\* C18: when the vision analysis of a sale fails, no sale changes (the items
\* of every sale, the matched sales and the counter are as after an analysis
\* without findings), the next sale with photos is analysed next, and after
\* the last one the run goes on to the price lookup.
C18_VisionFailureIsolated ==
    [][(pc = "vision" /\ Logs("vision_failed")) =>
          /\ sales' = sales
          /\ matched_sales' = matched_sales
          /\ vision_finds' = vision_finds
          /\ vision_items' = <<>>
          /\ MovesToNextSale]_vars

\* the analysis of the first sale failed, the second sale got its vision item
\* and the run is pricing it
C18_Witness ==
    /\ pc = "price"
    /\ logged = <<[sale |-> 1, event |-> "vision_failed"]>>
    /\ Len(sales) = 2
    /\ sales[1].matched_items = <<>>
    /\ Len(sales[2].matched_items) = 1
    /\ sales[2].matched_items[1].source = "vision"
    /\ matched_sales = <<2>>

\* the step leaves every candidate item, the matched sales and the counter alone
NothingFound ==
    /\ sales' = sales
    /\ matched_sales' = matched_sales
    /\ vision_finds' = vision_finds

LacksField(finding) == "brand" \notin DOMAIN finding \/ "item_type" \notin DOMAIN finding

C20_Original ==
    [][(pc = "enrich" \/ pc = "price") => pc' # "aborted"]_vars

\* C30: for every list of exactly 5 observations analyze discards nothing
\* (count = 5, the summary is that of all sold prices); the count differs
\* from the number of listings only for lists of 6 or more observations.
C30_FiveObservationsUntrimmed ==
    /\ (a_stats # NoneVal /\ Len(a_listings) = 5) =>
          /\ a_stats[1].count = 5
          /\ a_stats[1] = StatsOf(SoldPrices(a_listings))
    /\ (a_stats # NoneVal /\ a_listings # <<>>
          /\ a_stats[1].count # Len(a_listings)) => Len(a_listings) >= 6

\* five observations in the most extreme shape, four equal prices and one far
\* away, all kept
C30_Witness ==
    /\ a_stats # NoneVal
    /\ Len(a_listings) = 5
    /\ Cardinality({i \in 1..5 : a_listings[i].sold_price = 10}) = 4
    /\ Cardinality({i \in 1..5 : a_listings[i].sold_price = 1000}) = 1
    /\ a_stats[1].count = 5
    /\ a_stats[1].max = 100000

IsGoto(e) == e.ev = "goto_ok" \/ e.ev = "goto_failed"

\* the positions in s_trace of the load attempts for a page
AttemptsFor(page) == { j \in DOMAIN s_trace : IsGoto(s_trace[j]) /\ s_trace[j].page = page }

\* the number of failed attempts for the page of position i before position i
FailedBefore(i) ==
    Cardinality({ j \in AttemptsFor(s_trace[i].page) :
                    j < i /\ s_trace[j].ev = "goto_failed" })

\* C21: a call of _safe_get makes at most max_retries load attempts; after a
\* successful attempt it returns True and makes no further attempt; after the
\* k-th failure (k = 0, 1, ...) that is not the last it sleeps 2^k seconds
\* and after max_retries failures it returns False without sleeping.
C21_BoundedRetriesWithBackoff ==
    /\ \A i \in DOMAIN s_trace :
          LET e == s_trace[i]
          IN  /\ IsGoto(e) => Cardinality(AttemptsFor(e.page)) <= s_args.max_retries
              /\ e.ev = "goto_ok" => \A j \in AttemptsFor(e.page) : j <= i
              /\ e.ev = "goto_failed" =>
                    IF FailedBefore(i) + 1 < s_args.max_retries
                    THEN /\ i < Len(s_trace)
                         /\ s_trace[i + 1] = Event("sleep", e.page, 2 ^ FailedBefore(i))
                    ELSE /\ \A j \in AttemptsFor(e.page) : j <= i
                         /\ i < Len(s_trace) => s_trace[i + 1].ev # "sleep"
              /\ e.ev = "sleep" => i > 1 /\ s_trace[i - 1].ev = "goto_failed"
    /\ (s_pc = "returned" /\ s_args.call = "_safe_get") =>
          LET attempts == AttemptsFor(1)
          IN  /\ s_success # NoneVal
              /\ s_success[1] <=> (s_trace # <<>> /\ s_trace[Len(s_trace)].ev = "goto_ok")
              /\ ~s_success[1] =>
                    /\ Cardinality(attempts) = Max2(s_args.max_retries, 0)
                    /\ \A j \in attempts : s_trace[j].ev = "goto_failed"

\* three failures in a row: sleeps of 1 and 2 seconds, False, no third sleep
C21_Witness ==
    /\ s_pc = "returned"
    /\ s_args.call = "_safe_get"
    /\ s_args.max_retries = DefaultMaxRetries
    /\ s_success = Some(FALSE)
    /\ s_trace = << Event("goto_failed", 1, 0), Event("sleep", 1, 1),
                    Event("goto_failed", 1, 1), Event("sleep", 1, 2),
                    Event("goto_failed", 1, 2) >>

\* the listings of the pages parsed in the first n events, in page order
RECURSIVE ParsedListings(_)
ParsedListings(n) ==
    IF n = 0 THEN <<>>
    ELSE ParsedListings(n - 1)
         \o (IF s_trace[n].ev = "parsed"
             THEN PageListings(s_trace[n].page, s_trace[n].n) ELSE <<>>)

\* position i holds the failure of the last load attempt for its page
FinalFailure(i) ==
    /\ s_trace[i].ev = "goto_failed"
    /\ FailedBefore(i) + 1 = s_args.max_retries

\* C24: search_sold requests the pages 1, 2, ... in increasing order and at
\* most max_pages of them; nothing is requested after a page that failed to
\* load after its retries or that yielded fewer than 10 listings; what it
\* returns is the listings of all pages loaded, in page order.
C24_PagesInOrderUntilShortOrFailed ==
    (s_args # <<>> /\ s_args.call = "search_sold") =>
        /\ \A i \in DOMAIN s_trace :
              /\ s_trace[i].page \in 1..s_args.max_pages
              /\ i > 1 => s_trace[i].page \in { s_trace[i - 1].page, s_trace[i - 1].page + 1 }
              /\ (i > 1 /\ s_trace[i].page # s_trace[i - 1].page) =>
                    /\ s_trace[i - 1].ev = "parsed"
                    /\ s_trace[i - 1].n >= PageSize
              /\ (s_trace[i].ev = "parsed" /\ s_trace[i].n < PageSize) => i = Len(s_trace)
              /\ s_trace[i].ev = "parsed" =>
                    /\ i > 1 /\ s_trace[i - 1].ev = "goto_ok"
                    /\ i < Len(s_trace) => s_trace[i + 1].page = s_trace[i].page + 1
              /\ FinalFailure(i) => i = Len(s_trace)
        /\ (s_trace # <<>> /\ s_trace[1].page = 1) \/ s_trace = <<>>
        /\ s_listings = ParsedListings(Len(s_trace))
        /\ s_pc = "returned" =>
              \/ s_args.max_pages = 0 /\ s_trace = <<>>
              \/ /\ s_trace # <<>>
                 /\ LET last == s_trace[Len(s_trace)]
                    IN  \/ FinalFailure(Len(s_trace))
                        \/ last.ev = "parsed" /\ last.n < PageSize
                        \/ last.ev = "parsed" /\ last.page = s_args.max_pages

\* two full pages were parsed, the third failed to load after its retries:
\* the listings of the first two pages are returned
C24_Witness ==
    /\ s_pc = "returned"
    /\ s_args.call = "search_sold"
    /\ s_args.max_pages >= 3
    /\ s_success = Some(FALSE)
    /\ s_trace[Len(s_trace)] = Event("goto_failed", 3, DefaultMaxRetries - 1)
    /\ Len(s_listings) >= 2 * PageSize
    /\ s_listings[1].page = 1
    /\ s_listings[Len(s_listings)].page = 2

\* C23 as stated: between two consecutive requests sent to the marketplace
\* there is a rate-limit delay of the base delay times a jitter factor in
\* [0.5, 1.5].
C23_Original ==
    \A i, j \in DOMAIN s_trace :
        (/\ i < j
         /\ IsGoto(s_trace[i]) /\ IsGoto(s_trace[j])
         /\ \A k \in (i + 1)..(j - 1) : ~IsGoto(s_trace[k])) =>
            \E k \in (i + 1)..(j - 1) :
                /\ s_trace[k].ev = "rate_limit"
                /\ s_trace[k].n \in 5..15

\* the findings of the batches sent so far, those of a failed batch left out
RECURSIVE BatchFindings(_)
BatchFindings(n) ==
    IF n = 0 THEN <<>>
    ELSE BatchFindings(n - 1)
         \o (IF b_sent[n].response.kind = "list" THEN b_sent[n].response.items ELSE <<>>)

PairOf(finding) == <<Get(finding, "brand", <<>>), Get(finding, "item_type", <<>>)>>

\* the findings whose (brand, item_type) pair no earlier finding has
RECURSIVE FirstOfEachPair(_, _)
FirstOfEachPair(findings, n) ==
    IF n = 0 THEN <<>>
    ELSE FirstOfEachPair(findings, n - 1)
         \o (IF \E j \in 1..(n - 1) : PairOf(findings[j]) = PairOf(findings[n])
             THEN <<>> ELSE <<findings[n]>>)

RECURSIVE ImagesSent(_)
ImagesSent(n) == IF n = 0 THEN <<>> ELSE ImagesSent(n - 1) \o b_sent[n].images

\* what C25 says of a call that has returned
C25_Returned ==
    b_pc = "returned" =>
        /\ b_result = Some(FirstOfEachPair(BatchFindings(Len(b_sent)),
                                           Len(BatchFindings(Len(b_sent)))))
        /\ ImagesSent(Len(b_sent)) = b_images
        /\ \A k \in DOMAIN b_sent : Len(b_sent[k].images) \in 1..b_args.per_batch
        /\ \A k \in DOMAIN b_images : b_images[k] \in 1..b_args.max_photos

\* C25 as stated: analyze_sale_photos returns the findings of the batches in
\* batch order without the later findings of an already seen (brand,
\* item_type) pair; a batch whose model call or parsing fails contributes no
\* findings and the batches after it are still analysed; only the first
\* max_photos URLs are used and a batch holds at most max_photos_per_batch
\* images.
C25_Original ==
    /\ C25_Returned
    /\ b_pc # "raised"

\* the brands the Brand Matcher detects in the description of sale s
TextBrands(s) ==
    LET items == match_sale(Brands, sales[s].description)
    IN  { items[t].brand : t \in DOMAIN items }

\* C26 as stated: at the end of the vision phase an item has provenance both
\* only if the Brand Matcher detected its brand on the sale, and an item
\* created from a vision finding keeps provenance vision through every
\* later finding.
C26_Original ==
    /\ [](pc = "phase4" =>
            \A s \in DOMAIN sales : \A i \in DOMAIN sales[s].matched_items :
                sales[s].matched_items[i].source = "both" =>
                    sales[s].matched_items[i].brand \in TextBrands(s))
    /\ [][pc = "merge" =>
            \A k \in DOMAIN sales[si].matched_items :
                sales[si].matched_items[k].source = "vision" =>
                    sales'[si].matched_items[k].source = "vision"]_vars

\* the number of candidate items of the first n sales
RECURSIVE ItemsOfFirst(_)
ItemsOfFirst(n) ==
    IF n = 0 THEN 0 ELSE ItemsOfFirst(n - 1) + Len(sales[n].matched_items)

\* C27 as stated: in the price-lookup phase the matched-sale list holds no
\* discovered sale twice and holds a discovered sale exactly when the sale
\* has a candidate item, so that every candidate item is priced; there are
\* never more opportunities than candidate items.
C27_Original ==
    pc \in {"price", "admit", "output", "report"} =>
        /\ \A k, l \in DOMAIN matched_sales :
              k # l => matched_sales[k] # matched_sales[l]
        /\ \A i \in DOMAIN sales :
              (\E k \in DOMAIN matched_sales : matched_sales[k] = i)
                  <=> sales[i].matched_items # <<>>
        /\ Len(opportunities) <= ItemsOfFirst(Len(sales))

\* C28: an item created by the vision merge has no estate price estimate; an
\* opportunity with provenance vision has no estimate, no profit multiplier
\* and no ROI; and a vision item that passes admission is appended to the
\* output whatever the multiplier threshold is.
C28_VisionItemsAlwaysIncluded ==
    /\ [](/\ \A s \in DOMAIN sales : \A i \in DOMAIN sales[s].matched_items :
               sales[s].matched_items[i].source = "vision" =>
                   sales[s].matched_items[i].estimated_price = NoneVal
          /\ \A i \in DOMAIN opportunities :
               opportunities[i].detection_source = "vision" =>
                   /\ opportunities[i].estate_price_estimate = NoneVal
                   /\ opportunities[i].profit_multiplier = NoneVal
                   /\ estimated_roi_pct(opportunities[i]) = NoneVal)
    /\ [][(/\ pc = "admit"
           /\ CurItem.source = "vision"
           /\ stats.count > 0 /\ stats.median >= 100 * min_price) =>
             /\ Len(opportunities') = Len(opportunities) + 1
             /\ opportunities'[Len(opportunities')].detection_source = "vision"
             /\ opportunities'[Len(opportunities')].matched_brand = CurItem.brand]_vars

\* with the threshold 3.0 given on the command line, a vision item is in the
\* output next to a text item whose multiplier 2.0 kept it out
C28_Witness ==
    /\ pc = "done"
    /\ args.multiplier = Some(30)
    /\ \E i \in DOMAIN opportunities :
          /\ opportunities[i].detection_source = "vision"
          /\ opportunities[i].profit_multiplier = NoneVal
    /\ \E i \in DOMAIN sales[1].matched_items :
          /\ sales[1].matched_items[i].source = "text"
          /\ sales[1].matched_items[i].estimated_price # NoneVal
          /\ \A j \in DOMAIN opportunities :
                opportunities[j].matched_brand # sales[1].matched_items[i].brand

NoCandidateItem == \A s \in DOMAIN sales : sales[s].matched_items = <<>>

\* C22: when discovery returns no sale the run ends at once, and when no
\* sale has a candidate item after the text matching and the vision phase
\* the run ends at the test before Phase 4; such a run never enters the
\* price phase, hands no query to search_sold, leaves the cache as it was,
\* has no opportunity and writes no ranking.
C22_NoResultsEndsRun ==
    /\ [](NoCandidateItem =>
            /\ pc \notin {"price", "admit", "output", "report"}
            /\ searched = <<>>
            /\ query = <<>>
            /\ opportunities = <<>>
            /\ shown = NoneVal /\ report = NoneVal)
    /\ [][/\ (pc = "search" /\ sales' = <<>>) => pc' = "done"
          /\ (pc = "phase4" /\ NoCandidateItem) => pc' = "done"
          /\ NoCandidateItem' => cache' = cache]_vars

\* two sales with photos were analysed, nothing was found, and the run ended
\* with the cache of the earlier run untouched
C22_Witness ==
    /\ pc = "done"
    /\ Len(sales) = 2
    /\ NoCandidateItem
    /\ ~args.no_vision
    /\ \A s \in DOMAIN sales : sales[s].photo_urls # <<>>
    /\ Len(logged) = 2
    /\ cache # <<>>
    /\ searched = <<>>

\* C29: a live lookup leaves the cache entry of its query holding the summary
\* just computed, the empty summary included, stored at the current time;
\* without the bypass flag an item whose query was already looked up in the
\* run takes that summary from the cache, and no query is handed to
\* search_sold twice.
C29_LookupOncePerQuery ==
    /\ [][(pc = "price" /\ pc' = "admit" /\ searched' # searched) =>
             /\ query' \in DOMAIN cache'
             /\ cache'[query'].summary = stats'
             /\ cache'[query'].age = 0
             /\ \A q \in DOMAIN cache : q # query' => (q \in DOMAIN cache' /\ cache'[q] = cache[q])]_vars
    /\ [][(/\ pc = "price" /\ pc' # "price"
           /\ ~args.no_cache
           /\ \E k \in DOMAIN searched : searched[k] = query') =>
             /\ searched' = searched
             /\ cache' = cache
             /\ pc' = "admit"
             /\ stats' = cache[query'].summary]_vars
    /\ [](~args.no_cache =>
            \A k, l \in DOMAIN searched : k # l => searched[k] # searched[l])

\* two sales with an item of the same query: one lookup, which found no
\* listing, and the second item took the empty summary from the cache
C29_Witness ==
    /\ pc = "output"
    /\ ~args.no_cache
    /\ Len(matched_sales) = 2
    /\ ItemsOfFirst(Len(sales)) = 2
    /\ Len(searched) = 1
    /\ cache[searched[1]].summary.count = 0
    /\ stats.count = 0
    /\ query = searched[1]

====
